---- MODULE Spec2Model ----
(***************************************************************************)
(* Security middleware stack and authentication pipeline of the            *)
(* mymusicalroom backend (backend/app): rate limiter, CSRF guard, token    *)
(* verifier and cookie hardener.  Each component has its own next-state    *)
(* relation over the shared variables; a component's specification leaves  *)
(* the other components' variables unchanged.                              *)
(***************************************************************************)
EXTENDS Integers, Sequences, FiniteSets, TLC

VARIABLES
    now,        \* time.time(), in seconds
    store,      \* _rate_limit_store: ip -> list of (timestamp, endpoint)
    admitted,   \* history: (ip, endpoint) -> timestamps of the checks that returned True
    last,       \* history: the outcome of the most recent check_rate_limit call
    pc,         \* concurrent requests: position of each request in check_rate_limit_dep
    rq,         \* concurrent requests: locals (ip, endpoint, current_time, new list, count)
    running,    \* concurrent requests: the requests that hold the event loop (none or one)
    creq,       \* CSRF guard: the request in CSRFProtectionMiddleware.dispatch
    cout,       \* CSRF guard: "idle", "pending", "call_next" or "forbidden" (HTTPException 403)
    areq,       \* verifier: the request given to get_current_user
    ares,       \* verifier: what get_current_user returned or raised, and what it logged
    environment,\* config.ENVIRONMENT, fixed when the application is built
    upstream,   \* cookie hardener: the Set-Cookie headers of the response of call_next
    set_cookie, \* cookie hardener: the Set-Cookie headers of the response it returns
    hstage,     \* cookie hardener: "idle", "upstream" (call_next returned) or "hardened"
    fin,        \* file validator: the arguments of the call (file, declared type and name, expected type)
    fout,       \* file validator: the function that was applied, and what it returned or raised
    sname,      \* sanitizer: the filename given to sanitize_filename
    sout,       \* sanitizer: what sanitize_filename returned
    wreq,       \* application: the request that is passing through the middleware stack
    wpos,       \* application: the stage the request or its response has reached
    wroute,     \* application: the route the router matched
    wuser,      \* application: what the get_current_user dependency of the route gave
    wresp,      \* application: the response (status, headers, data of the body)
    pages,      \* database: the rows of the table pages
    resources,  \* database: the rows of the table resources
    files,      \* the files under RESOURCES_DIR, by their relative path
    lreq,       \* login and register: the request to POST /api/auth/login or /register
    lpos,       \* login and register: "idle", "depends" (dependencies), "validate", "body" or "done"
    lresp,      \* login and register: the response, the services contacted and the events logged
    accounts    \* identity provider: the e-mail addresses that have an account

rlVars == <<now, store, admitted, last>>
concVars == <<pc, rq, running>>
csrfVars == <<creq, cout>>
authVars == <<areq, ares>>
cookieVars == <<environment, upstream, set_cookie, hstage>>
valVars == <<fin, fout, sname, sout>>
appVars == <<wreq, wpos, wroute, wuser, wresp, pages, resources, files>>
loginVars == <<lreq, lpos, lresp, accounts>>
svcVars == <<valVars, appVars, loginVars>>
vars == <<now, store, admitted, last, pc, rq, running, creq, cout, areq, ares,
          environment, upstream, set_cookie, hstage, fin, fout, sname, sout,
          wreq, wpos, wroute, wuser, wresp, pages, resources, files, lreq, lpos, lresp, accounts>>

None == "none"

\* ------------------------------------------------------------------------
\* Rate limiter (rate_limit.py)
\* ------------------------------------------------------------------------
RATE_LIMIT_WINDOW == 60
RATE_LIMIT_MAX_REQUESTS == 5

IPs == {"10.0.0.1"}
Endpoints == {"login", "register"}
Keys == IPs \X Endpoints

\* The clock is read at these instants only: the steps reach both sides of
\* the window edge (59 s and 60 s after a request).
TickSteps == {30, 59, 60}
MaxTime == 65

\* requests in flight at once (rate_limit_dependency is awaited once per request)
NumRequests == 2
Requests == 1..NumRequests

\* rate_limit.py:39-47.  The defaultdict holds an empty list for an absent ip.
cleanup_old_entries(st, ip, current_time) ==
    [st EXCEPT ![ip] = SelectSeq(@, LAMBDA e : e.ts > current_time - RATE_LIMIT_WINDOW)]

\* Faulty variant: the requests of the address to every endpoint are counted.
endpoint_requests_of_any_endpoint(lst, endpoint, current_time) ==
    SelectSeq(lst, LAMBDA e : e.ts > current_time - RATE_LIMIT_WINDOW)

\* rate_limit.py:58-61
endpoint_requests(lst, endpoint, current_time) ==
    SelectSeq(lst, LAMBDA e : e.ep = endpoint /\ e.ts > current_time - RATE_LIMIT_WINDOW)

\* Faulty variant: the threshold test is > instead of >=, so a 6th request passes.
check_rate_limit_result_off_by_one(st, ip, endpoint, current_time) ==
    LET purged == cleanup_old_entries(st, ip, current_time)
    IN  Len(endpoint_requests(purged[ip], endpoint, current_time)) <= RATE_LIMIT_MAX_REQUESTS

\* rate_limit.py:50-68, the returned value
check_rate_limit_result(st, ip, endpoint, current_time) ==
    LET purged == cleanup_old_entries(st, ip, current_time)
    IN  Len(endpoint_requests(purged[ip], endpoint, current_time)) < RATE_LIMIT_MAX_REQUESTS

\* Faulty variant: the rejected request is recorded too.
check_rate_limit_store_recording_rejected(st, ip, endpoint, current_time) ==
    [cleanup_old_entries(st, ip, current_time) EXCEPT
        ![ip] = Append(@, [ts |-> current_time, ep |-> endpoint])]

\* rate_limit.py:50-68, the store it leaves
check_rate_limit_store(st, ip, endpoint, current_time) ==
    LET purged == cleanup_old_entries(st, ip, current_time)
    IN  IF check_rate_limit_result(st, ip, endpoint, current_time)
        THEN [purged EXCEPT ![ip] = Append(@, [ts |-> current_time, ep |-> endpoint])]
        ELSE purged

\* ------------------------------------------------------------------------
\* Requests, headers and signed tokens
\* ------------------------------------------------------------------------

\* A header or cookie that the request does not carry (headers.get gives None)
Absent == [present |-> FALSE]

\* A signed token as jwt.decode sees it.  sig: how the token stands to
\* SUPABASE_JWT_SECRET and HS256; exp relative to the clock at the time of the
\* call; aud, sub and email are the payload's claims ("absent": no such claim).
SigKinds == {"valid", "tampered", "wrong_alg", "malformed"}
ExpKinds == {"absent", "past", "future"}
AudKinds == {"absent", "authenticated", "other"}
SubKinds == {"absent", "", "user-1"}
EmailKinds == {"absent", "", "a@b.c"}

Tokens ==
    {t \in [sig : SigKinds, exp : ExpKinds, aud : AudKinds, sub : SubKinds, email : EmailKinds] :
        t.sig = "malformed" =>
            t.exp = "absent" /\ t.aud = "absent" /\ t.sub = "absent" /\ t.email = "absent"}

\* Authorization header values: "<scheme> <credentials>"
Schemes == {"Bearer", "bearer", "Basic"}
AuthHeaders == {Absent} \cup [present : {TRUE}, scheme : Schemes, value : Tokens]

\* str.lower() on the words that occur: the schemes of an Authorization
\* header, the attribute names of a cookie and the pieces of a page name
Lower(word) ==
    CASE word = "Bearer" -> "bearer"
      [] word = "Basic" -> "basic"
      [] word \in {"HttpOnly", "Httponly"} -> "httponly"
      [] word = "Secure" -> "secure"
      [] word \in {"SameSite", "Samesite"} -> "samesite"
      [] word = "Path" -> "path"
      [] word \in {"Max-Age", "Max-age"} -> "max-age"
      [] word = "A" -> "a"
      [] OTHER -> word

\* auth_header and auth_header.lower().startswith("bearer ")
\* (csrf.py:52, csrf.py:102, auth.py:23)
IsBearer(h) == h.present /\ Lower(h.scheme) = "bearer"

\* auth_header.split(" ", 1)[1]  (csrf.py:55, auth.py:24)
BearerValue(h) == h.value

\* jwt.decode(token, SUPABASE_JWT_SECRET, algorithms=["HS256"],
\*            audience="authenticated", options={"verify_signature": True})
\* (csrf.py:59-65, auth.py:53-59): the exception it raises, or "ok".  The
\* token is parsed, its algorithm and signature are checked, then exp (only
\* when the payload has one: no claim is required), then aud.
jwt_decode(t) ==
    CASE t.sig = "malformed" -> "DecodeError"
      [] t.sig = "wrong_alg" -> "InvalidAlgorithmError"
      [] t.sig = "tampered" -> "InvalidSignatureError"
      [] t.exp = "past" -> "ExpiredSignatureError"
      [] t.aud = "absent" -> "MissingRequiredClaimError"
      [] t.aud # "authenticated" -> "InvalidAudienceError"
      [] OTHER -> "ok"

\* ------------------------------------------------------------------------
\* CSRF guard (csrf.py)
\* ------------------------------------------------------------------------
CSRF_PROTECTED_METHODS == {"POST", "PUT", "PATCH", "DELETE"}
PUBLIC_ENDPOINTS == {"/api/auth/register", "/api/auth/login"}

Methods == {"GET", "HEAD", "OPTIONS"} \cup CSRF_PROTECTED_METHODS
Paths == PUBLIC_ENDPOINTS \cup {"/api/pages"}

\* X-CSRF-Token header values: not sent, sent empty, sent with a value
CsrfHeaders == {Absent, [present |-> TRUE, value |-> ""], [present |-> TRUE, value |-> "x1"]}

CsrfRequests == [method : Methods, path : Paths, authorization : AuthHeaders, csrf : CsrfHeaders]

NoCsrfRequest == [method |-> None, path |-> None, authorization |-> Absent, csrf |-> Absent]

\* csrf.py:26-28 and the `not token` of csrf.py:47: the header has a
\* non-empty value
HasCsrfToken(r) == r.csrf.present /\ r.csrf.value # ""

\* csrf.py:30-72
validate_csrf_token(r) ==
    /\ HasCsrfToken(r)
    /\ IsBearer(r.authorization)
    /\ jwt_decode(BearerValue(r.authorization)) = "ok"

\* Faulty variant: the public endpoints are not exempt.
CSRFDispatch_no_exemption(r) ==
    IF r.method \notin CSRF_PROTECTED_METHODS THEN "call_next"
    ELSE IF IsBearer(r.authorization) /\ ~validate_csrf_token(r) THEN "forbidden"
    ELSE "call_next"

\* csrf.py:89-112, CSRFProtectionMiddleware.dispatch: "call_next" hands the
\* request to the next stage and so to the route handler, "forbidden" raises
\* HTTPException(403, "CSRF token missing or invalid")
CSRFDispatch(r) ==
    IF r.method \notin CSRF_PROTECTED_METHODS THEN "call_next"
    ELSE IF r.path \in PUBLIC_ENDPOINTS THEN "call_next"
    ELSE IF IsBearer(r.authorization) /\ ~validate_csrf_token(r) THEN "forbidden"
    ELSE "call_next"

CsrfIdle ==
    /\ creq = NoCsrfRequest
    /\ cout = "idle"

\* a request reaches the middleware
CsrfReceive ==
    /\ cout = "idle"
    /\ creq' \in CsrfRequests
    /\ cout' = "pending"
    /\ UNCHANGED <<rlVars, concVars, authVars, cookieVars, svcVars>>

\* csrf.py:89-112
CsrfGuard ==
    /\ cout = "pending"
    /\ cout' = CSRFDispatch(creq)
    /\ UNCHANGED <<creq, rlVars, concVars, authVars, cookieVars, svcVars>>

\* the response (of the handler, or the error) has been sent
CsrfRespond ==
    /\ cout \in {"call_next", "forbidden"}
    /\ creq' = NoCsrfRequest
    /\ cout' = "idle"
    /\ UNCHANGED <<rlVars, concVars, authVars, cookieVars, svcVars>>

NextCsrf == CsrfReceive \/ CsrfGuard \/ CsrfRespond

\* before the first call there is no outcome
NoCheck == [ip |-> None, ep |-> None, time |-> 0, allowed |-> FALSE, prior |-> <<>>]

\* the locals of a request that has not entered the dependency
NoLocals == [ip |-> None, ep |-> None, current_time |-> 0, kept |-> <<>>, count |-> 0]

\* _rate_limit_store at the time `at`, after the checks of `history` were
\* allowed: for each key the times of its checks
RLInit(at, kept, history) ==
    /\ now = at
    /\ store = kept
    /\ admitted = history
    /\ last = NoCheck

ConcIdle ==
    /\ pc = [p \in Requests |-> "idle"]
    /\ rq = [p \in Requests |-> NoLocals]
    /\ running = {}

\* ------------------------------------------------------------------------
\* Token verifier (auth.py) and the security log (security_logging.py)
\* ------------------------------------------------------------------------

\* sb-access-token cookie values: not sent, sent empty, sent with a token
CookieValues ==
    {Absent, [present |-> TRUE, empty |-> TRUE]}
        \cup [present : {TRUE}, empty : {FALSE}, value : Tokens]

AuthRequests == [method : {"GET"}, path : {"/api/pages"},
                 authorization : AuthHeaders, cookie : CookieValues]

NoAuthRequest == [method |-> None, path |-> None, authorization |-> Absent, cookie |-> Absent]

\* the token a request presents: where it was found, and its value
NoToken == [source |-> "none"]

\* Faulty variant: the cookie is preferred to the Authorization header.
get_token_from_request_cookie_first(r) ==
    IF r.cookie.present /\ ~r.cookie.empty
    THEN [source |-> "cookie", value |-> r.cookie.value]
    ELSE IF IsBearer(r.authorization)
    THEN [source |-> "header", value |-> BearerValue(r.authorization)]
    ELSE NoToken

\* Faulty variant: the cookie fallback is missing.
get_token_from_request_header_only(r) ==
    IF IsBearer(r.authorization)
    THEN [source |-> "header", value |-> BearerValue(r.authorization)]
    ELSE NoToken

\* auth.py:20-29, _get_token_from_request
get_token_from_request(r) ==
    IF IsBearer(r.authorization)
    THEN [source |-> "header", value |-> BearerValue(r.authorization)]
    ELSE IF r.cookie.present /\ ~r.cookie.empty
    THEN [source |-> "cookie", value |-> r.cookie.value]
    ELSE NoToken

\* security_logging.py:25-43, get_client_info: nothing of the credentials
get_client_info(r) == [method |-> r.method, path |-> r.path]

SensitiveKeys == {"password", "token", "secret", "key", "credential"}

\* security_logging.py:72-81
sanitize_details(details) ==
    [k \in DOMAIN details |-> IF k \in SensitiveKeys THEN <<"[REDACTED]">> ELSE details[k]]

\* security_logging.py:153-163 and 46-91: the record that
\* log_authentication_failure(request, reason) hands to the logger.  A
\* reason is the sequence of the pieces of its (formatted) string.
log_authentication_failure(r, reason) ==
    [event_type |-> "authentication_failure", level |-> "WARNING",
     client |-> get_client_info(r), user_identifier |-> None,
     details |-> sanitize_details([reason |-> reason])]

\* security_logging.py:11-13 and 86-91: the records that security_logger,
\* whose level is WARNING, emits of those handed to it
emitted(log) == SelectSeq(log, LAMBDA record : record.level \in {"WARNING", "ERROR"})

\* the exceptions of jwt that are subclasses of InvalidTokenError
InvalidTokenErrors ==
    {"DecodeError", "InvalidAlgorithmError", "InvalidSignatureError",
     "ExpiredSignatureError", "MissingRequiredClaimError", "InvalidAudienceError"}

\* Faulty variant: the except clause of InvalidTokenError comes first and catches
\* the expired token too.
handle_exception_generic_first(exc) ==
    IF exc \in InvalidTokenErrors
    THEN [detail |-> "Invalid token", reason |-> <<"Invalid token: ", exc>>]
    ELSE [detail |-> "Invalid token", reason |-> <<"Authentication error: ", exc>>]

\* auth.py:76-96, the except clauses in their order: the detail of the 401
\* and the reason logged for an exception raised inside the try block
handle_exception(exc) ==
    IF exc = "ExpiredSignatureError"
    THEN [detail |-> "Token expired", reason |-> <<"Token expired">>]
    ELSE IF exc \in InvalidTokenErrors
    THEN [detail |-> "Invalid token", reason |-> <<"Invalid token: ", exc>>]
    ELSE [detail |-> "Invalid token", reason |-> <<"Authentication error: ", exc>>]

NoIdentity == [returned |-> FALSE]

\* dict.get(claim) is truthy: the claim is there and is not the empty string
Truthy(claim) == claim \notin {"absent", ""}

\* auth.py:32-96, get_current_user: the response status and detail, the
\* identity returned, the records logged, and the token that was examined
get_current_user(r) ==
    LET tok == get_token_from_request(r)
        unauthorized(detail, reasons) ==
            [status |-> 401, detail |-> detail, identity |-> NoIdentity, token |-> tok,
             log |-> [i \in 1..Len(reasons) |-> log_authentication_failure(r, reasons[i])]]
    IN  IF tok.source = "none"
        THEN unauthorized("Not authenticated", << <<"No token provided">> >>)
        ELSE LET exc == jwt_decode(tok.value)
             IN  IF exc = "ok"
                 THEN IF ~Truthy(tok.value.sub)
                      \* the HTTPException of auth.py:66 is raised inside the try
                      \* block and caught by `except Exception` (auth.py:90)
                      THEN LET h == handle_exception("HTTPException")
                           IN  unauthorized(h.detail, << <<"Token missing user ID">>, h.reason >>)
                      ELSE [status |-> 200, detail |-> None, token |-> tok, log |-> <<>>,
                            identity |-> [returned |-> TRUE, id |-> tok.value.sub,
                                          email |-> IF Truthy(tok.value.email)
                                                    THEN tok.value.email ELSE ""]]
                 ELSE LET h == handle_exception(exc)
                      IN  unauthorized(h.detail, <<h.reason>>)

NoResult == [status |-> 0, detail |-> None, identity |-> NoIdentity, token |-> NoToken,
             log |-> <<>>]

AuthIdle ==
    /\ areq = NoAuthRequest
    /\ ares = NoResult

\* a request reaches a route that depends on get_current_user
AuthReceive ==
    /\ areq = NoAuthRequest
    /\ areq' \in AuthRequests
    /\ ares' = NoResult
    /\ UNCHANGED <<rlVars, concVars, csrfVars, cookieVars, svcVars>>

\* auth.py:32-96
AuthVerify ==
    /\ areq # NoAuthRequest
    /\ ares = NoResult
    /\ ares' = get_current_user(areq)
    /\ UNCHANGED <<areq, rlVars, concVars, csrfVars, cookieVars, svcVars>>

\* the response has been sent
AuthRespond ==
    /\ ares # NoResult
    /\ areq' = NoAuthRequest
    /\ ares' = NoResult
    /\ UNCHANGED <<rlVars, concVars, csrfVars, cookieVars, svcVars>>

NextAuth == AuthReceive \/ AuthVerify \/ AuthRespond

\* ------------------------------------------------------------------------
\* Cookie hardener (cookie_security.py)
\* ------------------------------------------------------------------------

\* config.py:51-55 gives "development" when ENVIRONMENT is not set
Environments == {"development", "production", "prod"}

\* cookie_security.py:26-28
is_production == environment = "production"

\* the attributes a cookie of the upstream response has at most
MaxAttrs == 2

\* One "; "-separated part of a Set-Cookie value after name=value: a flag
\* (no "=") or key=value
Flag(key) == [key |-> key, has_value |-> FALSE, value |-> ""]
Attr(key, value) == [key |-> key, has_value |-> TRUE, value |-> value]

UpstreamParts ==
    {Flag("HttpOnly"), Flag("Secure"), Attr("SameSite", "Strict"), Attr("Path", "/"),
     Attr("Max-Age", "60")}

AttrLists == UNION {[1..n -> UpstreamParts] : n \in 0..MaxAttrs}

\* a Set-Cookie header value: its first part (a cookie has a name, so the
\* part is not empty) and the parts that follow
UpstreamCookies == [name_value : {"id=1", "sid=2"}, attrs : AttrLists]

\* the Set-Cookie headers of one upstream response, in order
UpstreamResponses ==
    {<<>>} \cup {<<c>> : c \in UpstreamCookies}
           \cup {<<c, d>> : c \in UpstreamCookies, d \in UpstreamCookies}

\* str.capitalize() on a lower-case attribute name
Capitalize(word) ==
    CASE word = "httponly" -> "Httponly"
      [] word = "secure" -> "Secure"
      [] word = "samesite" -> "Samesite"
      [] word = "path" -> "Path"
      [] word = "max-age" -> "Max-age"
      [] OTHER -> word

\* attrs[key] = value on a dict kept in insertion order
DictSet(dict, entry) ==
    IF \E i \in DOMAIN dict : dict[i].key = entry.key
    THEN [i \in DOMAIN dict |-> IF dict[i].key = entry.key THEN entry ELSE dict[i]]
    ELSE Append(dict, entry)

\* cookie_security.py:49-57: the attrs dict of the parts after name=value
RECURSIVE parse_attrs(_, _)
parse_attrs(parts, dict) ==
    IF parts = <<>> THEN dict
    ELSE LET part == Head(parts)
             entry == [key |-> Lower(part.key), has_value |-> part.has_value,
                       value |-> part.value]
         IN  parse_attrs(Tail(parts), DictSet(dict, entry))

\* cookie_security.py:76-82: the attributes that are re-emitted
RECURSIVE preserved(_)
preserved(dict) ==
    IF dict = <<>> THEN <<>>
    ELSE LET e == Head(dict)
         IN  IF e.key \notin {"httponly", "secure", "samesite"}
             THEN <<[key |-> Capitalize(e.key), has_value |-> e.has_value, value |-> e.value]>>
                  \o preserved(Tail(dict))
             ELSE preserved(Tail(dict))

\* cookie_security.py:59-82: the rewritten value of one cookie
secure_cookie(cookie, production) ==
    LET attrs == parse_attrs(cookie.attrs, <<>>)
        has(k) == \E i \in DOMAIN attrs : attrs[i].key = k
    IN  [name_value |-> cookie.name_value,
         attrs |-> (IF ~has("httponly") THEN <<Flag("HttpOnly")>> ELSE <<>>)
                   \o (IF production /\ ~has("secure") THEN <<Flag("Secure")>> ELSE <<>>)
                   \o (IF ~has("samesite") THEN <<Attr("SameSite", "Lax")>> ELSE <<>>)
                   \o preserved(attrs)]

\* cookie_security.py:34-84: the Set-Cookie headers after the middleware; a
\* cookie whose first part is empty is skipped (cookie_security.py:44-46)
RECURSIVE harden(_, _)
harden(cookies, production) ==
    IF cookies = <<>> THEN <<>>
    ELSE IF Head(cookies).name_value = ""
    THEN harden(Tail(cookies), production)
    ELSE <<secure_cookie(Head(cookies), production)>> \o harden(Tail(cookies), production)

CookieIdle ==
    /\ upstream = <<>>
    /\ set_cookie = <<>>
    /\ hstage = "idle"

\* cookie_security.py:31: call_next returns the response of the inner stages
CookieUpstream ==
    /\ hstage = "idle"
    /\ upstream' \in UpstreamResponses
    /\ set_cookie' = upstream'
    /\ hstage' = "upstream"
    /\ UNCHANGED <<environment, rlVars, concVars, csrfVars, authVars, svcVars>>

\* cookie_security.py:33-86
CookieHarden ==
    /\ hstage = "upstream"
    /\ set_cookie' = harden(set_cookie, is_production)
    /\ hstage' = "hardened"
    /\ UNCHANGED <<environment, upstream, rlVars, concVars, csrfVars, authVars, svcVars>>

\* the response has been sent
CookieSend ==
    /\ hstage = "hardened"
    /\ upstream' = <<>>
    /\ set_cookie' = <<>>
    /\ hstage' = "idle"
    /\ UNCHANGED <<environment, rlVars, concVars, csrfVars, authVars, svcVars>>

NextCookie == CookieUpstream \/ CookieHarden \/ CookieSend

\* ------------------------------------------------------------------------
\* File content validator (file_validation.py)
\* ------------------------------------------------------------------------

\* file_validation.py:11-14, in bytes
MAX_FILE_SIZE == 100 * 1024 * 1024
MAX_VIDEO_SIZE == 500 * 1024 * 1024
MAX_PHOTO_SIZE == 50 * 1024 * 1024
MAX_DOCUMENT_SIZE == 50 * 1024 * 1024

\* the byte strings b'RIFF', b'PK\x03\x04', b'AVI ', b'WEBM', b'WEBP',
\* b'word/' and b'[Content_Types].xml' as sequences of byte values
MAGIC ==
    [RIFF |-> <<82, 73, 70, 70>>,
     PK |-> <<80, 75, 3, 4>>,
     AVI |-> <<65, 86, 73, 32>>,
     WEBM |-> <<87, 69, 66, 77>>,
     WEBP |-> <<87, 69, 66, 80>>,
     WORD |-> <<119, 111, 114, 100, 47>>,
     CONTENT_TYPES |-> <<91, 67, 111, 110, 116, 101, 110, 116, 95, 84, 121, 112, 101, 115,
                         93, 46, 120, 109, 108>>]

DOCX_MIME == "application/vnd.openxmlformats-officedocument.wordprocessingml.document"

\* file_validation.py:18-40, in the order of the list
FILE_SIGNATURES ==
    LET entry(signature, offset, mime_type, extension, file_type) ==
            [signature |-> signature, offset |-> offset, mime_type |-> mime_type,
             extension |-> extension, file_type |-> file_type]
    IN  << entry(<<255, 216, 255>>, 0, "image/jpeg", ".jpg", "photo"),
           entry(<<137, 80, 78, 71, 13, 10, 26, 10>>, 0, "image/png", ".png", "photo"),
           entry(<<71, 73, 70, 56, 55, 97>>, 0, "image/gif", ".gif", "photo"),
           entry(<<71, 73, 70, 56, 57, 97>>, 0, "image/gif", ".gif", "photo"),
           entry(MAGIC.RIFF, 0, "image/webp", ".webp", "photo"),
           entry(<<66, 77>>, 0, "image/bmp", ".bmp", "photo"),
           entry(<<73, 73, 42, 0>>, 0, "image/tiff", ".tiff", "photo"),
           entry(<<77, 77, 0, 42>>, 0, "image/tiff", ".tiff", "photo"),
           entry(<<0, 0, 0, 32, 102, 116, 121, 112>>, 4, "video/mp4", ".mp4", "video"),
           entry(<<0, 0, 0, 24, 102, 116, 121, 112>>, 4, "video/mp4", ".mp4", "video"),
           entry(MAGIC.RIFF, 0, "video/avi", ".avi", "video"),
           entry(MAGIC.RIFF, 0, "video/webm", ".webm", "video"),
           entry(<<0, 0, 0, 32, 102, 116, 121, 112, 113, 116, 32, 32>>, 4,
                 "video/quicktime", ".mov", "video"),
           entry(<<37, 80, 68, 70>>, 0, "application/pdf", ".pdf", "document"),
           entry(<<208, 207, 17, 224, 161, 177, 26, 225>>, 0, "application/msword", ".doc",
                 "document"),
           entry(MAGIC.PK, 0, DOCX_MIME, ".docx", "document") >>

\* file_validation.py:43-67, ALLOWED_MIME_TYPES.get(file_type, set())
ALLOWED_MIME_TYPES(file_type) ==
    CASE file_type = "photo" ->
            {"image/jpeg", "image/jpg", "image/png", "image/gif", "image/webp", "image/bmp",
             "image/tiff", "image/tif"}
      [] file_type = "video" ->
            {"video/mp4", "video/avi", "video/x-msvideo", "video/quicktime", "video/webm"}
      [] file_type = "document" ->
            {"application/pdf", "application/msword", DOCX_MIME,
             "application/vnd.ms-word.document.macroEnabled.12"}
      [] OTHER -> {}

\* file_validation.py:70-74, ALLOWED_EXTENSIONS.get(file_type, set())
ALLOWED_EXTENSIONS(file_type) ==
    CASE file_type = "photo" ->
            {".jpg", ".jpeg", ".png", ".gif", ".webp", ".bmp", ".tiff", ".tif"}
      [] file_type = "video" -> {".mp4", ".avi", ".mov", ".webm"}
      [] file_type = "document" -> {".pdf", ".doc", ".docx"}
      [] OTHER -> {}

\* An uploaded file: the bytes `head` from offset 0, the bytes `chunk` from
\* offset `at`, the byte 0 everywhere else, and all of it cut off after
\* `size` bytes.
\* file_content[lo:lo + len(pattern)] == pattern
SliceEquals(f, lo, pattern) ==
    LET byte(i) == IF i < Len(f.head) THEN f.head[i + 1]
                   ELSE IF f.at <= i /\ i < f.at + Len(f.chunk) THEN f.chunk[i - f.at + 1]
                   ELSE 0
    IN  /\ lo + Len(pattern) <= f.size
        /\ \A j \in 1..Len(pattern) : byte(lo + j - 1) = pattern[j]

\* pattern in file_content[lo:hi], for a pattern that does not begin with
\* the byte 0: it can begin only where a byte of head or chunk stands
Contains(f, pattern, lo, hi) ==
    \E i \in 0..(Len(f.head) - 1) \cup f.at..(f.at + Len(f.chunk) - 1) :
        /\ lo <= i
        /\ i + Len(pattern) <= hi
        /\ SliceEquals(f, i, pattern)

\* x is not None and not the empty string (`if x:`)
Given(x) == x \notin {None, ""}

\* what the validator returns: the detected (mime_type, extension,
\* file_type), or no type and, for validate_file and validate_file_size,
\* the ValueError raised
Accepted(mime_type, extension, file_type) ==
    [ok |-> TRUE, mime_type |-> mime_type, extension |-> extension, file_type |-> file_type,
     error |-> None]

Rejected(error) ==
    [ok |-> FALSE, mime_type |-> None, extension |-> None, file_type |-> None, error |-> error]

\* file_validation.py:93-120, the loop over FILE_SIGNATURES from entry k on
RECURSIVE check_signatures(_, _, _)
check_signatures(f, expected_type, k) ==
    IF k > Len(FILE_SIGNATURES) THEN Rejected(None)
    ELSE LET e == FILE_SIGNATURES[k]
         IN  IF Given(expected_type) /\ e.file_type # expected_type
             THEN check_signatures(f, expected_type, k + 1)
             ELSE IF f.size > e.offset + Len(e.signature)
                     /\ SliceEquals(f, e.offset, e.signature)
             THEN IF e.signature = MAGIC.RIFF
                  THEN IF Contains(f, MAGIC.AVI, 8, 12)
                       THEN Accepted("video/avi", ".avi", "video")
                       ELSE IF Contains(f, MAGIC.WEBM, 8, 12)
                       THEN Accepted("video/webm", ".webm", "video")
                       ELSE IF Contains(f, MAGIC.WEBP, 8, 12)
                       THEN Accepted("image/webp", ".webp", "photo")
                       ELSE check_signatures(f, expected_type, k + 1)
                  ELSE IF e.signature = MAGIC.PK
                  THEN IF Contains(f, MAGIC.WORD, 0, 1024)
                          \/ Contains(f, MAGIC.CONTENT_TYPES, 0, 1024)
                       THEN Accepted(DOCX_MIME, ".docx", "document")
                       ELSE check_signatures(f, expected_type, k + 1)
                  ELSE Accepted(e.mime_type, e.extension, e.file_type)
             ELSE check_signatures(f, expected_type, k + 1)

\* file_validation.py:77-120
validate_file_magic_bytes(f, expected_type) ==
    IF f.size = 0 \/ f.size < 12 THEN Rejected(None)
    ELSE check_signatures(f, expected_type, 1)

\* Faulty variant: a file of exactly the maximum size is refused.
validate_file_size_exclusive(f, file_type) ==
    LET max_size == CASE file_type = "video" -> MAX_VIDEO_SIZE
                      [] file_type = "photo" -> MAX_PHOTO_SIZE
                      [] file_type = "document" -> MAX_DOCUMENT_SIZE
                      [] OTHER -> MAX_FILE_SIZE
    IN  IF f.size >= max_size THEN "exceeds maximum allowed size"
        ELSE IF f.size = 0 THEN "File is empty."
        ELSE "ok"

\* file_validation.py:123-153: "ok", or the ValueError raised
validate_file_size(f, file_type) ==
    LET max_size == CASE file_type = "video" -> MAX_VIDEO_SIZE
                      [] file_type = "photo" -> MAX_PHOTO_SIZE
                      [] file_type = "document" -> MAX_DOCUMENT_SIZE
                      [] OTHER -> MAX_FILE_SIZE
    IN  IF f.size > max_size THEN "exceeds maximum allowed size"
        ELSE IF f.size = 0 THEN "File is empty."
        ELSE "ok"

\* content_type.lower().split(';')[0].strip()  (file_validation.py:190), on
\* the declared content types that occur
normalize_content_type(content_type) ==
    CASE content_type = "IMAGE/PNG" -> "image/png"
      [] content_type = "image/jpeg; charset=binary" -> "image/jpeg"
      [] content_type = " video/avi " -> "video/avi"
      [] OTHER -> content_type

\* Path(filename).suffix.lower()  (file_validation.py:217), on the declared
\* filenames that occur: the last dot of the final path component and what
\* follows it, unless that dot is the first or the last character
suffix_lower(filename) ==
    CASE filename \in {"a.jpg", "a.JPG", "../a.b/c.jpg"} -> ".jpg"
      [] filename = "a.jpeg" -> ".jpeg"
      [] filename = "a.tif" -> ".tif"
      [] filename = "a.png" -> ".png"
      [] filename = "a.webp" -> ".webp"
      [] filename = "a.mp4" -> ".mp4"
      [] filename = "a.avi" -> ".avi"
      [] filename = "a.pdf" -> ".pdf"
      [] filename = "a.docx" -> ".docx"
      [] filename = "a.exe" -> ".exe"
      [] filename \in {"a", ".jpg", "a."} -> ""

\* file_validation.py:188-213, the ValueError of the content type check or "ok"
check_content_type(content_type, d) ==
    IF ~Given(content_type) THEN "ok"
    ELSE LET ct == normalize_content_type(content_type)
             is_flexible_match ==
                \/ /\ ct \in {"image/jpg", "image/jpeg"}
                   /\ d.mime_type \in {"image/jpeg", "image/jpg"}
                \/ /\ ct \in {"video/x-msvideo", "video/avi"}
                   /\ d.mime_type \in {"video/avi", "video/x-msvideo"}
         IN  IF ct \notin ALLOWED_MIME_TYPES(d.file_type) THEN "Content type is not allowed"
             ELSE IF Given(d.mime_type) /\ ct # d.mime_type /\ ~is_flexible_match
             THEN "Content type mismatch"
             ELSE "ok"

\* file_validation.py:216-233, the ValueError of the extension check or "ok"
check_extension(filename, d) ==
    IF ~Given(filename) THEN "ok"
    ELSE LET file_ext == suffix_lower(filename)
             jpeg_exts == {".jpg", ".jpeg"}
             tiff_exts == {".tiff", ".tif"}
         IN  IF file_ext # "" /\ file_ext \notin ALLOWED_EXTENSIONS(d.file_type)
             THEN "File extension is not allowed"
             ELSE IF Given(d.extension) /\ file_ext # d.extension
                     /\ ~ \/ file_ext \in jpeg_exts /\ d.extension \in jpeg_exts
                          \/ file_ext \in tiff_exts /\ d.extension \in tiff_exts
             THEN "File extension mismatch"
             ELSE "ok"

\* Faulty variant: the declared content type is returned as the MIME type.
validate_file_declared_mime(f, content_type, filename, expected_type) ==
    LET d == validate_file_magic_bytes(f, expected_type)
    IN  IF ~d.ok THEN Rejected("File is not a valid file")
        ELSE IF validate_file_size(f, d.file_type) # "ok"
        THEN Rejected(validate_file_size(f, d.file_type))
        ELSE IF check_content_type(content_type, d) # "ok"
        THEN Rejected(check_content_type(content_type, d))
        ELSE IF check_extension(filename, d) # "ok"
        THEN Rejected(check_extension(filename, d))
        ELSE Accepted(IF Given(content_type) THEN normalize_content_type(content_type)
                      ELSE d.mime_type, d.extension, d.file_type)

\* file_validation.py:156-235
validate_file(f, content_type, filename, expected_type) ==
    LET d == validate_file_magic_bytes(f, expected_type)
    IN  IF ~d.ok THEN Rejected("File is not a valid file")
        ELSE IF validate_file_size(f, d.file_type) # "ok"
        THEN Rejected(validate_file_size(f, d.file_type))
        ELSE IF check_content_type(content_type, d) # "ok"
        THEN Rejected(check_content_type(content_type, d))
        ELSE IF check_extension(filename, d) # "ok"
        THEN Rejected(check_extension(filename, d))
        ELSE Accepted(d.mime_type, d.extension, d.file_type)

\* The files that are uploaded: a signature at its offset or bytes that are
\* no signature, for RIFF and ZIP files the marker that tells the format
\* apart, and the lengths around 12 bytes, 1024 bytes and the size limits.
Files ==
    LET junk == <<1, 2, 3, 4>>
        heads == {junk} \cup {[i \in 1..FILE_SIGNATURES[k].offset |-> 0]
                                 \o FILE_SIGNATURES[k].signature : k \in 1..Len(FILE_SIGNATURES)}
        shapes ==
            {[head |-> h, at |-> 0, chunk |-> <<>>] : h \in heads}
                \cup {[head |-> h, at |-> 8, chunk |-> m] :
                        h \in {MAGIC.RIFF, junk}, m \in {MAGIC.AVI, MAGIC.WEBM, MAGIC.WEBP}}
                \cup {[head |-> h, at |-> a, chunk |-> MAGIC.WORD] :
                        h \in {MAGIC.PK, junk}, a \in {30, 1019, 1020}}
                \cup {[head |-> MAGIC.PK, at |-> 100, chunk |-> MAGIC.CONTENT_TYPES]}
        sizes == {0, 11, 12, 13, 17, 1100, MAX_PHOTO_SIZE, MAX_PHOTO_SIZE + 1, MAX_FILE_SIZE,
                  MAX_FILE_SIZE + 1, MAX_VIDEO_SIZE, MAX_VIDEO_SIZE + 1}
    IN  {[head |-> s.head, at |-> s.at, chunk |-> s.chunk, size |-> n] :
            s \in shapes, n \in sizes}

\* resource_type of upload_file, expected_type and file_type of the
\* validator: a member of models.ResourceType
FileTypes == {"photo", "video", "document", "audio"}

\* UploadFile.content_type and UploadFile.filename as the client declares them
ContentTypes ==
    {None, "", "image/jpeg", "image/jpg", "IMAGE/PNG", "image/jpeg; charset=binary",
     "video/x-msvideo", " video/avi ", "application/pdf", "text/plain"}

Filenames ==
    {None, "", "a.jpg", "a.JPG", "../a.b/c.jpg", "a.jpeg", "a.tif", "a.png", "a.webp",
     "a.mp4", "a.avi", "a.pdf", "a.docx", "a.exe", "a", ".jpg", "a."}

\* no call of the validator is under way
NoCall == [fn |-> None, file |-> [head |-> <<>>, at |-> 0, chunk |-> <<>>, size |-> 0],
           content_type |-> None, filename |-> None, type |-> None]

\* one call of validate_file_magic_bytes(file_content, expected_type)
CallMagicBytes ==
    /\ fin = NoCall
    /\ \E f \in Files, t \in {None} \cup FileTypes :
        /\ fin' = [NoCall EXCEPT !.fn = "validate_file_magic_bytes", !.file = f, !.type = t]
        /\ fout' = validate_file_magic_bytes(f, t)
    /\ UNCHANGED <<sname, sout>>
    /\ UNCHANGED <<rlVars, concVars, csrfVars, authVars, cookieVars, appVars, loginVars>>

\* one call of validate_file_size(file_content, file_type)
CallFileSize ==
    /\ fin = NoCall
    /\ \E f \in Files, t \in FileTypes :
        LET raised == validate_file_size(f, t)
        IN  /\ fin' = [NoCall EXCEPT !.fn = "validate_file_size", !.file = f, !.type = t]
            /\ fout' = IF raised = "ok" THEN Accepted(None, None, t) ELSE Rejected(raised)
    /\ UNCHANGED <<sname, sout>>
    /\ UNCHANGED <<rlVars, concVars, csrfVars, authVars, cookieVars, appVars, loginVars>>

\* one call of validate_file(file_content, content_type, filename, expected_type)
CallValidateFile ==
    /\ fin = NoCall
    /\ \E f \in Files, ct \in ContentTypes, name \in Filenames, t \in {None} \cup FileTypes :
        /\ fin' = [fn |-> "validate_file", file |-> f, content_type |-> ct,
                   filename |-> name, type |-> t]
        /\ fout' = validate_file(f, ct, name, t)
    /\ UNCHANGED <<sname, sout>>
    /\ UNCHANGED <<rlVars, concVars, csrfVars, authVars, cookieVars, appVars, loginVars>>

\* the caller has taken the result
FileReturn ==
    /\ fin # NoCall
    /\ fin' = NoCall
    /\ fout' = Rejected(None)
    /\ UNCHANGED <<sname, sout>>
    /\ UNCHANGED <<rlVars, concVars, csrfVars, authVars, cookieVars, appVars, loginVars>>

NextFile == CallMagicBytes \/ CallFileSize \/ CallValidateFile \/ FileReturn

\* ------------------------------------------------------------------------
\* Filename sanitizer (validators.py)
\* ------------------------------------------------------------------------

\* A filename is the sequence of its characters.  These are the characters
\* that the class [a-zA-Z0-9._-] of validators.py:182 has.
AllowedChars ==
    {"a", "b", "c", "d", "e", "f", "g", "h", "i", "j", "k", "l", "m", "n", "o", "p", "q", "r",
     "s", "t", "u", "v", "w", "x", "y", "z", "A", "B", "C", "D", "E", "F", "G", "H", "I", "J",
     "K", "L", "M", "N", "O", "P", "Q", "R", "S", "T", "U", "V", "W", "X", "Y", "Z", "0", "1",
     "2", "3", "4", "5", "6", "7", "8", "9", ".", "_", "-"}

\* validators.py:173-188: None, or the string returned
sanitize_filename(filename) ==
    LET \* s.split(sep)[-1]: what follows the last sep, or all of s
        last_part(s, sep) ==
            LET found == {i \in 1..Len(s) : s[i] = sep}
            IN  IF found = {} THEN s
                ELSE SubSeq(s, (CHOOSE i \in found : \A j \in found : j <= i) + 1, Len(s))
        name == last_part(last_part(filename, "/"), "\\")
        cleaned == SelectSeq(name, LAMBDA c : c \in AllowedChars)
    IN  IF filename = <<>> THEN [called |-> TRUE, none |-> TRUE, value |-> <<>>]
        ELSE [called |-> TRUE, none |-> FALSE,
              value |-> IF Len(cleaned) > 255 THEN SubSeq(cleaned, 1, 255) ELSE cleaned]

\* The filenames given to the sanitizer: every string of up to MaxNameLen
\* of these characters, and strings around the length limit.
MaxNameLen == 4

Names ==
    UNION {[1..n -> {"a", ".", "/", "\\", " "}] : n \in 0..MaxNameLen}
        \cup {[i \in 1..n |-> "a"] : n \in {255, 256, 300}}
        \cup {<<".", ".", "/">> \o [i \in 1..256 |-> "b"]}

\* one call of sanitize_filename(filename)
CallSanitize ==
    /\ ~sout.called
    /\ \E name \in Names :
        /\ sname' = name
        /\ sout' = sanitize_filename(name)
    /\ UNCHANGED <<fin, fout>>
    /\ UNCHANGED <<rlVars, concVars, csrfVars, authVars, cookieVars, appVars, loginVars>>

\* the caller has taken the result
SanitizeReturn ==
    /\ sout.called
    /\ sname' = <<>>
    /\ sout' = [called |-> FALSE, none |-> TRUE, value |-> <<>>]
    /\ UNCHANGED <<fin, fout>>
    /\ UNCHANGED <<rlVars, concVars, csrfVars, authVars, cookieVars, appVars, loginVars>>

NextSanitize == CallSanitize \/ SanitizeReturn

\* ------------------------------------------------------------------------
\* The application (main.py): the middleware stack, the routers of pages
\* and resources (routes/pages.py, routes/resources.py) and the database
\* ------------------------------------------------------------------------

\* security_headers.py:33-87, _build_security_headers: name and value
build_security_headers(production) ==
    {<<"X-Content-Type-Options", "nosniff">>,
     <<"X-Frame-Options", "SAMEORIGIN">>,
     <<"X-XSS-Protection", "1; mode=block">>,
     <<"Content-Security-Policy",
       "default-src 'self'; script-src 'self' 'unsafe-inline' 'unsafe-eval'; style-src 'self' 'unsafe-inline'; img-src 'self' data: blob: https:; font-src 'self' data:; connect-src 'self' https:; frame-src 'self' https:; frame-ancestors 'self'; base-uri 'self'; form-action 'self'; media-src 'self' https:">>,
     <<"Referrer-Policy", "strict-origin-when-cross-origin">>,
     <<"Permissions-Policy",
       "geolocation=(), microphone=(), camera=(), payment=(), usb=(), magnetometer=(), gyroscope=(), accelerometer=()">>}
        \cup (IF production
              THEN {<<"Strict-Transport-Security", "max-age=31536000; includeSubDomains">>}
              ELSE {})

\* the primary keys of the rows of the tables (models.py:21-47)
PageIds == {1, 2}
ResourceIds == {1, 2}

\* A text is the sequence of its pieces.  "/" and " " are pieces of their
\* own and no other piece holds one of them, so that two texts are the same
\* string exactly when they are the same sequence.

\* config.py:94-98, routes/resources.py:15: the directory of the uploaded
\* files
RESOURCES_DIR == <<"/", "app", "/", "resources">>

\* text.startswith(prefix)
startswith(text, prefix) ==
    Len(text) >= Len(prefix) /\ SubSeq(text, 1, Len(prefix)) = prefix

\* text.split("/"): the segments of a path
RECURSIVE split(_)
split(text) ==
    IF text = <<>> THEN << <<>> >>
    ELSE LET front == split(SubSeq(text, 1, Len(text) - 1))
             piece == text[Len(text)]
         IN  IF piece = "/" THEN Append(front, <<>>)
             ELSE [front EXCEPT ![Len(front)] = Append(@, piece)]

\* os.path.normpath of an absolute path: the empty segments and "." go,
\* ".." takes the segment before it and stays at the root.  The file system
\* resolves a path to the same file as long as no segment is a symbolic
\* link.
normpath(path) ==
    LET segments == split(path)
        RECURSIVE resolve(_)
        resolve(k) ==
            IF k = 0 THEN <<>>
            ELSE LET front == resolve(k - 1)
                     segment == segments[k]
                 IN  CASE segment \in {<<>>, <<".">>} -> front
                       [] segment = <<"..">> ->
                             IF front = <<>> THEN <<>> ELSE SubSeq(front, 1, Len(front) - 1)
                       [] OTHER -> Append(front, segment)
        RECURSIVE join(_)
        join(kept) ==
            IF kept = <<>> THEN <<>>
            ELSE join(SubSeq(kept, 1, Len(kept) - 1)) \o <<"/">> \o kept[Len(kept)]
        kept == resolve(Len(segments))
    IN  IF kept = <<>> THEN <<"/">> ELSE join(kept)

\* os.path.join(directory, path), Path(directory) / path: an absolute path
\* replaces the directory
path_join(directory, path) ==
    IF path # <<>> /\ Head(path) = "/" THEN path ELSE directory \o <<"/">> \o path

\* validators.py:12-13
PAGE_NAME_MIN_LENGTH == 1
PAGE_NAME_MAX_LENGTH == 200

\* validators.py:28-32, html.escape
sanitize_html(text) ==
    [k \in DOMAIN text |->
        CASE text[k] = "&" -> "&amp;"
          [] text[k] = "<" -> "&lt;"
          [] text[k] = ">" -> "&gt;"
          [] OTHER -> text[k]]

\* validators.py:86-102; ok is FALSE for a ValueError.  The length is
\* counted in pieces.
validate_page_name(name) ==
    LET RECURSIVE strip(_)
        strip(text) ==
            IF text # <<>> /\ Head(text) = " " THEN strip(Tail(text))
            ELSE IF text # <<>> /\ text[Len(text)] = " "
                 THEN strip(SubSeq(text, 1, Len(text) - 1))
                 ELSE text
        stripped == strip(name)
    IN  IF name = <<>> THEN [ok |-> FALSE, value |-> <<>>]
        ELSE IF Len(stripped) < PAGE_NAME_MIN_LENGTH THEN [ok |-> FALSE, value |-> <<>>]
        ELSE IF Len(stripped) > PAGE_NAME_MAX_LENGTH THEN [ok |-> FALSE, value |-> <<>>]
        ELSE [ok |-> TRUE, value |-> sanitize_html(stripped)]

\* ------------------------------------------------------------------------
\* Rich text (validators.py): sanitize_rich_html
\* ------------------------------------------------------------------------

\* A description is the sequence of its tokens: a tag, <name attrs> or
\* </name attrs>, whose name is the sequence of its characters, or a run of
\* text without a tag.  An attribute is key=value with the value in quotes
\* or not; attributes are separated from the name and from each other by
\* one space.  Names and keys are in lower case.

\* validators.py:23-24
ALLOWED_HTML_TAGS ==
    {<<"p">>, <<"b", "r">>, <<"s", "t", "r", "o", "n", "g">>, <<"b">>, <<"e", "m">>, <<"i">>,
     <<"u">>, <<"h", "1">>, <<"h", "2">>, <<"h", "3">>, <<"h", "4">>, <<"h", "5">>,
     <<"h", "6">>, <<"u", "l">>, <<"o", "l">>, <<"l", "i">>, <<"a">>,
     <<"b", "l", "o", "c", "k", "q", "u", "o", "t", "e">>, <<"p", "r", "e">>,
     <<"c", "o", "d", "e">>}

\* validators.py:25
ALLOWED_HTML_ATTRIBUTES == {"href", "target", "rel"}

HtmlTag(closing, name, attrs) ==
    [tag |-> TRUE, closing |-> closing, name |-> name, attrs |-> attrs, text |-> <<>>]

HtmlText(text) ==
    [tag |-> FALSE, closing |-> FALSE, name |-> <<>>, attrs |-> <<>>, text |-> text]

\* re.sub(r'<name[^>]*>.*?</name>', '', html_content) (validators.py:44,
\* 54): from the first opening tag whose name begins with `name` to the
\* first </name> after it, again and again
RECURSIVE remove_elements(_, _)
remove_elements(html_content, name) ==
    LET opens(k) == /\ html_content[k].tag
                    /\ ~html_content[k].closing
                    /\ startswith(html_content[k].name, name)
        closes(k) == /\ html_content[k].tag
                     /\ html_content[k].closing
                     /\ html_content[k].name = name
                     /\ html_content[k].attrs = <<>>
        starts == {i \in DOMAIN html_content :
                    opens(i) /\ \E j \in DOMAIN html_content : j > i /\ closes(j)}
        first == CHOOSE i \in starts : \A k \in starts : i <= k
        end == CHOOSE j \in DOMAIN html_content :
                    /\ j > first /\ closes(j)
                    /\ \A k \in DOMAIN html_content : k > first /\ closes(k) => j <= k
    IN  IF starts = {} THEN html_content
        ELSE SubSeq(html_content, 1, first - 1)
                \o remove_elements(SubSeq(html_content, end + 1, Len(html_content)), name)

\* validators.py:35-83.  last_tag is the member of ALLOWED_HTML_TAGS that
\* comes last when the set is joined into allowed_tags_pattern, and
\* attr_order the order in which ALLOWED_HTML_ATTRIBUTES is gone through:
\* the order of a set of strings changes from one process to another.
sanitize_rich_html(html_content, last_tag, attr_order) ==
    LET \* on\w+ and style, on the keys that occur
        without(content, keys) ==
            [k \in DOMAIN content |->
                [content[k] EXCEPT
                    !.attrs = SelectSeq(@, LAMBDA attr : ~(attr.key \in keys /\ attr.quoted))]]
        \* re.sub(r'javascript:', ''), re.sub(r'data:text/html', '')
        without_urls(content) ==
            [k \in DOMAIN content |->
                [content[k] EXCEPT
                    !.attrs = [n \in DOMAIN @ |->
                                [@[n] EXCEPT !.value =
                                    SelectSeq(@, LAMBDA piece :
                                        piece \notin {"javascript:", "data:text/html"})]]]]
        \* (?!p|br|...|code\b): the text after "<" or "</" begins with a
        \* member of ALLOWED_HTML_TAGS, and the word ends there when the
        \* member is the last one of the pattern
        allowed(name) ==
            \E tag \in ALLOWED_HTML_TAGS :
                IF tag = last_tag THEN name = tag ELSE startswith(name, tag)
        \* re.sub(r'</?(?!...)[^>]+>', ''): an opening tag matches unless
        \* its name is allowed; a closing tag matches with its "/" either
        \* as the optional "/" or, when the name is allowed, as the first
        \* character of [^>]+
        without_tags(content) ==
            SelectSeq(content,
                      LAMBDA token : ~token.tag \/ (~token.closing /\ allowed(token.name)))
        \* clean_attrs: for each allowed attribute the first one of the tag
        \* with this key and a value in quotes
        clean_attrs(attrs) ==
            LET found(key) == {n \in DOMAIN attrs : attrs[n].key = key /\ attrs[n].quoted}
                first(key) == CHOOSE n \in found(key) : \A k \in found(key) : n <= k
                kept == SelectSeq(attr_order, LAMBDA key : found(key) # {})
            IN  [n \in DOMAIN kept |->
                    [key |-> kept[n], value |-> sanitize_html(attrs[first(kept[n])].value),
                     quoted |-> TRUE]]
        \* rf'<{tag}\s+([^>]*)>' for each tag of ALLOWED_HTML_TAGS
        cleaned(content) ==
            [k \in DOMAIN content |->
                IF /\ content[k].tag /\ ~content[k].closing
                   /\ content[k].name \in ALLOWED_HTML_TAGS
                   /\ content[k].attrs # <<>>
                THEN [content[k] EXCEPT !.attrs = clean_attrs(@)]
                ELSE content[k]]
        no_script == remove_elements(html_content, <<"s", "c", "r", "i", "p", "t">>)
        no_handlers == without_urls(without(no_script, {"onerror", "onclick"}))
        no_style == without(remove_elements(no_handlers, <<"s", "t", "y", "l", "e">>),
                            {"style"})
    IN  IF html_content = <<>> THEN html_content
        ELSE cleaned(without_tags(no_style))

\* the descriptions of at most MaxTokens tokens that the clients send
MaxTokens == 2

Descriptions ==
    LET names == {<<"a">>, <<"i", "m", "g">>, <<"i", "f", "r", "a", "m", "e">>,
                  <<"b", "o", "d", "y">>, <<"e", "m", "b", "e", "d">>,
                  <<"s", "c", "r", "i", "p", "t">>, <<"d", "i", "v">>}
        attrs == {<<>>} \cup {<<[key |-> key, value |-> <<"x">>, quoted |-> quoted]>> :
                                key \in {"href", "src", "onerror"}, quoted \in BOOLEAN}
        tokens == {HtmlText(<<"t">>)}
                    \cup {HtmlTag(closing, name, a) :
                            closing \in BOOLEAN, name \in names, a \in attrs}
    IN  UNION {[1..n -> tokens] : n \in 0..MaxTokens}

\* one call of sanitize_rich_html(html_content)
CallSanitizeHtml ==
    /\ ~sout.called
    /\ \E html_content \in Descriptions, last_tag \in ALLOWED_HTML_TAGS,
          attr_order \in {order \in [1..3 -> ALLOWED_HTML_ATTRIBUTES] :
                            \A i, j \in 1..3 : order[i] = order[j] => i = j} :
        /\ sname' = html_content
        /\ sout' = [called |-> TRUE, none |-> FALSE,
                    value |-> sanitize_rich_html(html_content, last_tag, attr_order)]
    /\ UNCHANGED <<fin, fout>>
    /\ UNCHANGED <<rlVars, concVars, csrfVars, authVars, cookieVars, appVars, loginVars>>

NextHtml == CallSanitizeHtml \/ SanitizeReturn

\* the names that the clients give to a page
PageNames ==
    {<<>>, <<"A">>, <<" ", "A">>, <<"..", "/", "..", "/", "resources", "2">>}

\* the token of a signed-in user
GoodToken ==
    [sig |-> "valid", exp |-> "future", aud |-> "authenticated", sub |-> "user-1",
     email |-> "a@b.c"]

\* The file paths that the clients ask serve_file for, as the router hands
\* them to it: of an upload to the page "A", of an upload to the page
\* "../../resources2", of the same file by a shorter way, and of a file
\* above the directory.  The path "/api/resources/file/" of a request
\* stands for the path that ends with its file_path.
ServedPaths ==
    {<<"song", "/", "a", "/", "a", ".jpg">>,
     <<"song", "/", "..", "/", "..", "/", "resources", "2", "/", "a", ".jpg">>,
     <<"%2e%2e", "/", "resources", "2", "/", "a", ".jpg">>,
     <<"..", "/", "a", ".jpg">>}

\* The requests that the clients of the application send: with a token
\* that verifies or one whose signature does not, in the Authorization
\* header or the cookie, with or without the X-CSRF-Token header.
AppRequests ==
    LET forged == [GoodToken EXCEPT !.sig = "tampered"]
    IN  [method : {"GET", "POST", "PUT", "DELETE"},
         path : {"/api/pages/", "/api/pages/1", "/api/pages/2", "/api/resources/",
                 "/api/resources/1", "/api/resources/reorder", "/api/resources/upload/1",
                 "/api/resources/file/"},
         file_path : {<<"song", "/", "a", "/", "a", ".jpg">>},
         authorization : {Absent} \cup [present : {TRUE}, scheme : {"Bearer"},
                                        value : {GoodToken, forged}],
         csrf : {Absent, [present |-> TRUE, value |-> "x1"]},
         cookie : {Absent, [present |-> TRUE, empty |-> FALSE, value |-> GoodToken]}]

\* The requests of a signed-in user of the single-page application, which
\* sends the X-CSRF-Token header, and of a client without a token, to the
\* routes that change the tables and to serve_file
StoreRequests ==
    LET to == [method : {"POST"}, path : {"/api/pages/", "/api/resources/",
                                          "/api/resources/upload/1"}]
                \cup [method : {"PUT"}, path : {"/api/pages/1"}]
                \cup [method : {"DELETE"}, path : {"/api/pages/1", "/api/resources/1",
                                                   "/api/resources/2"}]
                \cup [method : {"GET"}, path : {"/api/resources/file/"}]
    IN  UNION {{[method |-> t.method, path |-> t.path, file_path |-> f, authorization |-> a,
                 csrf |-> [present |-> TRUE, value |-> "x1"], cookie |-> Absent] :
                    f \in IF t.method = "GET" THEN ServedPaths ELSE {<<>>},
                    a \in {Absent,
                           [present |-> TRUE, scheme |-> "Bearer", value |-> GoodToken]}} :
               t \in to}

NoAppRequest == [method |-> None, path |-> None, file_path |-> <<>>, authorization |-> Absent,
                 csrf |-> Absent, cookie |-> Absent]

\* The routes of pages.router and resources.router in the order in which
\* they are declared and included (main.py:49-50), and the route of the
\* application; user: the route has the parameter
\* user=Depends(get_current_user).
ROUTES ==
    LET route(name, method, pattern, user) ==
            [name |-> name, method |-> method, pattern |-> pattern, user |-> user]
    IN  << route("get_pages", "GET", "/api/pages/", FALSE),
           route("get_page", "GET", "/api/pages/{page_id}", FALSE),
           route("create_page", "POST", "/api/pages/", TRUE),
           route("update_page", "PUT", "/api/pages/{page_id}", TRUE),
           route("delete_page", "DELETE", "/api/pages/{page_id}", TRUE),
           route("get_resources", "GET", "/api/resources/", TRUE),
           route("get_resource", "GET", "/api/resources/{resource_id}", TRUE),
           route("create_resource", "POST", "/api/resources/", TRUE),
           route("upload_file", "POST", "/api/resources/upload/{page_id}", TRUE),
           route("update_resource", "PUT", "/api/resources/{resource_id}", TRUE),
           route("reorder_resources", "PUT", "/api/resources/reorder", TRUE),
           route("delete_resource", "DELETE", "/api/resources/{resource_id}", TRUE),
           \* main.py:55
           route("serve_file", "GET", "/api/resources/file/{file_path:path}", TRUE) >>

NoRoute == [name |-> None, method |-> None, pattern |-> None, user |-> FALSE]

\* the path format of a route matches the path: a parameter stands for one
\* segment without "/", a parameter with the convertor path for the rest of
\* the path
path_matches(pattern, path) ==
    CASE pattern = "/api/pages/{page_id}" -> path \in {"/api/pages/1", "/api/pages/2"}
      [] pattern = "/api/resources/{resource_id}" ->
            path \in {"/api/resources/1", "/api/resources/2", "/api/resources/reorder"}
      [] pattern = "/api/resources/upload/{page_id}" -> path = "/api/resources/upload/1"
      [] pattern = "/api/resources/file/{file_path:path}" -> path = "/api/resources/file/"
      [] OTHER -> path = pattern

\* page_id: int, resource_id: int: the segment of the path that stands for
\* the parameter of the route; 0 when the segment is not an integer, -1
\* when the path has no such segment
path_param(path) ==
    CASE path \in {"/api/pages/1", "/api/resources/1", "/api/resources/upload/1"} -> 1
      [] path \in {"/api/pages/2", "/api/resources/2"} -> 2
      [] path = "/api/resources/reorder" -> 0
      [] OTHER -> -1

\* the router takes the first route, from route k on, whose path format and
\* method match
RECURSIVE match_route(_, _, _)
match_route(method, path, k) ==
    IF k > Len(ROUTES) THEN NoRoute
    ELSE IF ROUTES[k].method = method /\ path_matches(ROUTES[k].pattern, path) THEN ROUTES[k]
    ELSE match_route(method, path, k + 1)

\* the body of a response: the pages and the resources it shows, or the
\* file whose contents it is
NoData == [pages |-> {}, resources |-> {}, file |-> <<>>]

\* a response of the router, which is a JSON document
Response(status, data) ==
    [status |-> status, headers |-> {<<"content-type", "application/json">>}, data |-> data]

\* what a route handler does: the response, and the tables and the
\* directory of the files after it
Outcome(status, data, new_pages, new_resources, new_disk) ==
    [status |-> status, data |-> data, pages |-> new_pages, resources |-> new_resources,
     disk |-> new_disk]

\* PageWithResources (schemas.py:136-137): a page with its resources
WithResources(some_pages, db_resources) ==
    [pages |-> some_pages,
     resources |-> {r \in db_resources : \E p \in some_pages : p.id = r.page_id},
     file |-> <<>>]

\* the primary key that the database gives to a new row
FreeIds(ids, rows) == {i \in ids : \A row \in rows : row.id # i}

\* what the client uploads to upload_file: the file, its declared content
\* type and filename, and the query parameters title and resource_type
Uploads ==
    [file : {f \in Files : /\ f.size = 17
                           /\ f.at \in {0, 8}
                           /\ f.head \in {<<1, 2, 3, 4>>, MAGIC.RIFF, <<255, 216, 255>>}
                           /\ f.chunk \in {<<>>, MAGIC.AVI}},
     content_type : {None, "image/jpeg", "text/plain"},
     filename : {"a.jpg", "a", ""},
     title : {None, "t"},
     resource_type : {None, "photo", "video"}]

\* Path(file.filename).stem (resources.py:106), on the filenames that occur
stem(filename) ==
    CASE filename \in {"a.jpg", "a"} -> "a"
      [] OTHER -> ""

\* routes/pages.py: the handler `name` applied to the tables and the
\* directory of the files; its possible outcomes.  An HTTPException is
\* raised before any commit, and a name that PageCreate or PageUpdate
\* (schemas.py:12-36) does not validate is answered 422 before the handler
\* runs.
pages_router(name, page_id, db_pages, db_resources, disk) ==
    LET found == {p \in db_pages : p.id = page_id}
        fails(status) == Outcome(status, NoData, db_pages, db_resources, disk)
        shows(row) == [pages |-> {row}, resources |-> {}, file |-> <<>>]
    IN  CASE name = "get_pages" ->
                {Outcome(200, WithResources(db_pages, db_resources), db_pages, db_resources,
                         disk)}
          [] name = "get_page" ->
                IF found = {} THEN {fails(404)}
                ELSE {Outcome(200, WithResources(found, db_resources), db_pages, db_resources,
                              disk)}
          [] name = "create_page" ->
                {LET v == validate_page_name(n)
                     row == [id |-> i, name |-> v.value, type |-> "song"]
                 IN  IF ~v.ok THEN fails(422)
                     ELSE Outcome(200, shows(row), db_pages \cup {row}, db_resources, disk) :
                    i \in FreeIds(PageIds, db_pages), n \in PageNames}
          [] name = "update_page" ->
                {LET v == validate_page_name(n)
                     row == [(CHOOSE p \in found : TRUE) EXCEPT !.name = v.value]
                 IN  IF ~v.ok THEN fails(422)
                     ELSE IF found = {} THEN fails(404)
                     ELSE Outcome(200, shows(row), (db_pages \ found) \cup {row}, db_resources,
                                  disk) :
                    n \in PageNames}
          \* the resources of the page go with it (models.py:30,
          \* cascade="all, delete-orphan"), their files stay
          [] name = "delete_page" ->
                IF found = {} THEN {fails(404)}
                ELSE {Outcome(200, NoData, db_pages \ found,
                              {r \in db_resources : r.page_id # page_id}, disk)}

\* routes/resources.py: the handler `name` applied to the tables and the
\* directory of the files; its possible outcomes.  id is the path
\* parameter, resource_id or page_id.  The file_path of a resource without
\* a file is the empty text.
resources_router(name, id, db_pages, db_resources, disk) ==
    LET found == {r \in db_resources : r.id = id}
        fails(status) == Outcome(status, NoData, db_pages, db_resources, disk)
        of_page(page_id) == {r \in db_resources : r.page_id = page_id}
        shows(rows) == [pages |-> {}, resources |-> rows, file |-> <<>>]
        \* order = max_order, the number of the resources of the page
        \* (resources.py:42-52, 125-137)
        resource(i, page_id, title, resource_type, file_path) ==
            [id |-> i, page_id |-> page_id, title |-> title, resource_type |-> resource_type,
             file_path |-> file_path, order |-> Cardinality(of_page(page_id))]
        \* resources.py:56-152 for one upload
        upload(up) ==
            LET page == CHOOSE p \in db_pages : p.id = id
                v == validate_file(up.file, up.content_type, up.filename, up.resource_type)
                resource_type == IF Given(up.resource_type) THEN up.resource_type
                                 ELSE v.file_type
                \* page.name.lower().replace(" ", "_")
                page_name == [k \in DOMAIN page.name |->
                                IF page.name[k] = " " THEN "_" ELSE Lower(page.name[k])]
                \* the characters of these names all pass the filter of
                \* resources.py:111
                safe_filename == stem(up.filename) \o v.extension
                relative_path == <<page.type, "/">> \o page_name
                                    \o <<"/", stem(up.filename), v.extension>>
                \* open(page_dir / safe_filename, "wb"): the file that the
                \* file system resolves the path to
                file_path == normpath(path_join(RESOURCES_DIR, relative_path))
            IN  IF \A p \in db_pages : p.id # id THEN {fails(404)}
                ELSE IF up.filename = "" THEN {fails(400)}
                ELSE IF ~v.ok THEN {fails(400)}
                ELSE IF resource_type # v.file_type THEN {fails(400)}
                ELSE {LET row == resource(i, id,
                                          IF Given(up.title) THEN up.title ELSE safe_filename,
                                          resource_type, relative_path)
                      IN  Outcome(200, shows({row}), db_pages, db_resources \cup {row},
                                  disk \cup {file_path}) :
                         i \in FreeIds(ResourceIds, db_resources)}
    IN  CASE name = "get_resources" ->
                \* page_id 0 stands for no or a zero page_id
                {Outcome(200, shows(IF page_id # 0 THEN of_page(page_id) ELSE db_resources),
                         db_pages, db_resources, disk) : page_id \in {0} \cup PageIds}
          [] name = "get_resource" ->
                IF found = {} THEN {fails(404)}
                ELSE {Outcome(200, shows(found), db_pages, db_resources, disk)}
          [] name = "create_resource" ->
                UNION {IF \A p \in db_pages : p.id # page_id
                       THEN {fails(404)}
                       ELSE {LET row == resource(i, page_id, title, "document", <<>>)
                             IN  Outcome(200, shows({row}), db_pages, db_resources \cup {row},
                                         disk) :
                                i \in FreeIds(ResourceIds, db_resources), title \in {"t", "u"}} :
                       page_id \in PageIds}
          [] name = "upload_file" -> UNION {upload(up) : up \in Uploads}
          [] name = "update_resource" ->
                IF found = {} THEN {fails(404)}
                ELSE {LET row == [(CHOOSE r \in found : TRUE) EXCEPT !.title = title]
                      IN  Outcome(200, shows({row}), db_pages, (db_resources \ found) \cup {row},
                                  disk) : title \in {"t", "u"}}
          \* for a body {resource_id: new_order}
          [] name = "reorder_resources" ->
                {LET row == {r \in db_resources : r.id = i}
                     moved == {[r EXCEPT !.order = new_order] : r \in row}
                 IN  IF row = {} THEN fails(400)
                     ELSE Outcome(200, shows(moved), db_pages, (db_resources \ row) \cup moved,
                                  disk) :
                    i \in ResourceIds, new_order \in {0, 1}}
          \* Path(RESOURCES_DIR) / db_resource.file_path is unlinked when it
          \* exists
          [] name = "delete_resource" ->
                IF found = {} THEN {fails(404)}
                ELSE {Outcome(200, NoData, db_pages, db_resources \ found,
                              disk \ {normpath(path_join(RESOURCES_DIR, r.file_path)) :
                                        r \in {f \in found : f.file_path # <<>>}})}

\* urllib.parse.unquote on the pieces that occur
unquote(text) == [k \in DOMAIN text |-> IF text[k] = "%2e%2e" THEN ".." ELSE text[k]]

\* main.py:55-97, serve_file; the contents of the response are the ones of
\* the file full_path
serve_file(file_path, db_pages, db_resources, disk) ==
    LET decoded_path == unquote(file_path)
        full_path == normpath(path_join(RESOURCES_DIR, decoded_path))
        resources_dir_norm == normpath(RESOURCES_DIR)
        fails(status) == Outcome(status, NoData, db_pages, db_resources, disk)
    IN  IF ~startswith(full_path, resources_dir_norm) THEN fails(403)
        ELSE IF full_path \notin disk THEN fails(404)
        ELSE IF \A r \in db_resources : r.file_path # decoded_path THEN fails(403)
        ELSE Outcome(200, [NoData EXCEPT !.file = full_path], db_pages, db_resources, disk)

\* A table of the model holds as many rows as it has primary keys: the
\* clients that send r keep at most `kept` resources.
Room(r, kept) ==
    /\ r.method = "POST" /\ r.path = "/api/pages/" => FreeIds(PageIds, pages) # {}
    /\ r.method = "POST" /\ r.path \in {"/api/resources/", "/api/resources/upload/1"} =>
            Cardinality(resources) < kept

\* A request arrives.  CORSMiddleware and SecureCookieMiddleware, added
\* last and so outermost (main.py:34-47), hand it on (cookie_security.py:31)
\* to the CSRF guard.
AppReceive ==
    /\ wpos = "idle"
    /\ wreq' \in AppRequests
    /\ Room(wreq', 1)
    /\ wpos' = "csrf"
    /\ UNCHANGED <<wroute, wuser, wresp, pages, resources, files>>
    /\ UNCHANGED <<rlVars, concVars, csrfVars, authVars, cookieVars, valVars, loginVars>>

\* A request of a signed-in user of the single-page application, or of a
\* client without a token, arrives.
StoreReceive ==
    /\ wpos = "idle"
    /\ wreq' \in StoreRequests
    /\ Room(wreq', Cardinality(ResourceIds))
    /\ wpos' = "csrf"
    /\ UNCHANGED <<wroute, wuser, wresp, pages, resources, files>>
    /\ UNCHANGED <<rlVars, concVars, csrfVars, authVars, cookieVars, valVars, loginVars>>

\* csrf.py:89-112.  The guard hands the request on to
\* SecurityHeadersMiddleware, added first and so innermost (main.py:25-28),
\* which calls the router (security_headers.py:91); or it raises the
\* HTTPException, which leaves the stack through the stages outside the
\* guard.
AppCsrf ==
    /\ wpos = "csrf"
    /\ IF CSRFDispatch(wreq) = "forbidden"
       THEN /\ wresp' = [status |-> 403, headers |-> {}, data |-> NoData]
            /\ wpos' = "sent"
       ELSE /\ wresp' = wresp
            /\ wpos' = "router"
    /\ UNCHANGED <<wreq, wroute, wuser, pages, resources, files>>
    /\ UNCHANGED <<rlVars, concVars, csrfVars, authVars, cookieVars, valVars, loginVars>>

\* the router finds the route of the request, or answers 405
AppRoute ==
    /\ wpos = "router"
    /\ LET route == match_route(wreq.method, wreq.path, 1)
       IN  /\ wroute' = route
           /\ IF route = NoRoute
              THEN /\ wresp' = Response(405, NoData)
                   /\ wpos' = "security_headers"
              ELSE /\ wresp' = wresp
                   /\ wpos' = "depends"
    /\ UNCHANGED <<wreq, wuser, pages, resources, files>>
    /\ UNCHANGED <<rlVars, concVars, csrfVars, authVars, cookieVars, valVars, loginVars>>

\* Faulty variant: the HTTPException of get_current_user does not end the request.
solve_dependencies_ignoring_401(route, r) ==
    LET user == IF route.user THEN get_current_user(r) ELSE NoResult
    IN  [user |-> user,
         status |-> IF path_param(r.path) = 0 THEN 422 ELSE 200]

\* The dependencies of a route are solved before its body runs:
\* get_current_user where the route declares user=Depends(get_current_user),
\* whose HTTPException is the response; then the path parameter, which is
\* to be an integer.  status 200: the body runs.
solve_dependencies(route, r) ==
    LET user == IF route.user THEN get_current_user(r) ELSE NoResult
    IN  [user |-> user,
         status |-> IF route.user /\ user.status = 401 THEN 401
                    ELSE IF path_param(r.path) = 0 THEN 422 ELSE 200]

\* the parameters of the route handler are resolved
AppDepends ==
    /\ wpos = "depends"
    /\ LET solved == solve_dependencies(wroute, wreq)
       IN  /\ wuser' = solved.user
           /\ IF solved.status # 200
              THEN /\ wresp' = Response(solved.status, NoData)
                   /\ wpos' = "security_headers"
              ELSE /\ wresp' = wresp
                   /\ wpos' = "body"
    /\ UNCHANGED <<wreq, wroute, pages, resources, files>>
    /\ UNCHANGED <<rlVars, concVars, csrfVars, authVars, cookieVars, valVars, loginVars>>

\* the body of the route handler, with its commit
AppBody ==
    /\ wpos = "body"
    /\ \E out \in IF wroute.name \in {"get_pages", "get_page", "create_page", "update_page",
                                      "delete_page"}
                  THEN pages_router(wroute.name, path_param(wreq.path), pages, resources, files)
                  ELSE IF wroute.name = "serve_file"
                  THEN {serve_file(wreq.file_path, pages, resources, files)}
                  ELSE resources_router(wroute.name, path_param(wreq.path), pages, resources,
                                        files) :
        /\ wresp' = Response(out.status, out.data)
        /\ pages' = out.pages
        /\ resources' = out.resources
        /\ files' = out.disk
    /\ wpos' = "security_headers"
    /\ UNCHANGED <<wreq, wroute, wuser>>
    /\ UNCHANGED <<rlVars, concVars, csrfVars, authVars, cookieVars, valVars, loginVars>>

\* security_headers.py:89-97, after call_next has returned:
\* response.headers[header_name] = header_value for each header
AppSecurityHeaders ==
    /\ wpos = "security_headers"
    /\ LET new == build_security_headers(is_production)
       IN  wresp' = [wresp EXCEPT
                        !.headers = {h \in @ : \A n \in new : n[1] # h[1]} \cup new]
    /\ wpos' = "secure_cookie"
    /\ UNCHANGED <<wreq, wroute, wuser, pages, resources, files>>
    /\ UNCHANGED <<rlVars, concVars, csrfVars, authVars, cookieVars, valVars, loginVars>>

\* cookie_security.py:30-86, after call_next has returned: the responses of
\* these routes set no cookie (cookie_security.py:34), and the response
\* goes out through CORSMiddleware
AppSecureCookie ==
    /\ wpos = "secure_cookie"
    /\ wpos' = "sent"
    /\ UNCHANGED <<wreq, wroute, wuser, wresp, pages, resources, files>>
    /\ UNCHANGED <<rlVars, concVars, csrfVars, authVars, cookieVars, valVars, loginVars>>

\* the response has left the application
AppDone ==
    /\ wpos = "sent"
    /\ wreq' = NoAppRequest
    /\ wpos' = "idle"
    /\ wroute' = NoRoute
    /\ wuser' = NoResult
    /\ wresp' = [status |-> 0, headers |-> {}, data |-> NoData]
    /\ UNCHANGED <<pages, resources, files>>
    /\ UNCHANGED <<rlVars, concVars, csrfVars, authVars, cookieVars, valVars, loginVars>>

NextApp ==
    \/ AppReceive \/ AppCsrf \/ AppRoute \/ AppDepends \/ AppBody
    \/ AppSecurityHeaders \/ AppSecureCookie \/ AppDone

NextStore ==
    \/ StoreReceive \/ AppCsrf \/ AppRoute \/ AppDepends \/ AppBody
    \/ AppSecurityHeaders \/ AppSecureCookie \/ AppDone

\* ------------------------------------------------------------------------
\* The login route (routes/auth.py) behind the rate-limit dependency
\* (rate_limit.py)
\* ------------------------------------------------------------------------

\* what the client sends to POST /api/auth/login: UserLogin
\* (schemas.py:151-153) from an address; the username is an e-mail address
\* or a name, the password is the one of the account or another one
LoginRequests == [ip : IPs, username : {"a@b.c", "alice"}, password : {"correct", "wrong"}]

NoLoginRequest == [ip |-> None, username |-> None, password |-> None]

\* the response of the route, the services it contacted for it, and the
\* security events it logged
LoginResponse(status, contacted, log) == [status |-> status, contacted |-> contacted, log |-> log]

\* Faulty variant: the violation is logged but the request goes on.
check_rate_limit_dep_log_only(st, ip, endpoint_name, current_time) ==
    [allowed |-> check_rate_limit_result(st, ip, endpoint_name, current_time),
     store |-> check_rate_limit_store(st, ip, endpoint_name, current_time),
     raised |-> 0,
     log |-> IF check_rate_limit_result(st, ip, endpoint_name, current_time)
             THEN <<>> ELSE <<"rate_limit_exceeded">>]

\* rate_limit.py:78-89, check_rate_limit_dep for one endpoint: the store
\* after the check, the status of the HTTPException raised (0: none), and
\* the event logged
check_rate_limit_dep(st, ip, endpoint_name, current_time) ==
    [allowed |-> check_rate_limit_result(st, ip, endpoint_name, current_time),
     store |-> check_rate_limit_store(st, ip, endpoint_name, current_time),
     raised |-> IF check_rate_limit_result(st, ip, endpoint_name, current_time)
                THEN 0 ELSE 429,
     log |-> IF check_rate_limit_result(st, ip, endpoint_name, current_time)
             THEN <<>> ELSE <<"rate_limit_exceeded">>]

\* routes/auth.py:80-137, the body of login for one answer of the identity
\* provider; easymeal: EasymealSession is configured
login(r, easymeal, answer) ==
    LET contacted == (IF r.username # "a@b.c" /\ easymeal THEN {"easymeal"} ELSE {})
                        \cup {"supabase"}
    IN  IF answer = "session" THEN LoginResponse(200, contacted, <<"successful_login">>)
        ELSE LoginResponse(401, contacted, <<"failed_login">>)

\* a login request arrives
LoginReceive ==
    /\ lpos = "idle"
    /\ lreq' \in LoginRequests
    /\ lpos' = "depends"
    /\ UNCHANGED <<lresp, accounts>>
    /\ UNCHANGED <<rlVars, concVars, csrfVars, authVars, cookieVars, valVars, appVars>>

\* routes/auth.py:77: the dependency rate_limit_dependency("login") is
\* solved before the body of login runs
LoginRateLimit ==
    /\ lpos = "depends"
    /\ LET dep == check_rate_limit_dep(store, lreq.ip, "login", now)
       IN  /\ store' = dep.store
           /\ last' = [ip |-> lreq.ip, ep |-> "login", time |-> now, allowed |-> dep.allowed,
                       prior |-> admitted[<<lreq.ip, "login">>]]
           /\ admitted' = IF dep.allowed
                          THEN [admitted EXCEPT ![<<lreq.ip, "login">>] = Append(@, now)]
                          ELSE admitted
           /\ IF dep.raised # 0
              THEN /\ lresp' = LoginResponse(dep.raised, {}, dep.log)
                   /\ lpos' = "done"
              ELSE /\ lresp' = LoginResponse(0, {}, dep.log)
                   /\ lpos' = "body"
    /\ UNCHANGED <<now, lreq, accounts>>
    /\ UNCHANGED <<concVars, csrfVars, authVars, cookieVars, valVars, appVars>>

\* routes/auth.py:80-137.  supabase.auth.sign_in_with_password
\* (routes/auth.py:109-112) answers with a session, with a response without
\* session, or with an exception; with a session only for the password of
\* the account.
LoginBody ==
    /\ lpos = "body"
    /\ \E easymeal \in BOOLEAN,
          answer \in IF lreq.password = "correct" THEN {"session", "exception"}
                     ELSE {"no session", "exception"} :
        lresp' = [login(lreq, easymeal, answer) EXCEPT !.log = lresp.log \o @]
    /\ lpos' = "done"
    /\ UNCHANGED <<lreq, accounts>>
    /\ UNCHANGED <<rlVars, concVars, csrfVars, authVars, cookieVars, valVars, appVars>>

\* the response has been sent
LoginDone ==
    /\ lpos = "done"
    /\ lreq' = NoLoginRequest
    /\ lpos' = "idle"
    /\ lresp' = LoginResponse(0, {}, <<>>)
    /\ UNCHANGED <<accounts, rlVars, concVars, csrfVars, authVars, cookieVars, valVars, appVars>>

\* ------------------------------------------------------------------------
\* The register route (routes/auth.py) behind the rate-limit dependency,
\* the validation of its payload (schemas.py) and the error handler
\* (error_handler.py)
\* ------------------------------------------------------------------------

\* what the client sends to POST /api/auth/register: UserCreate
\* (schemas.py:141-148) from an address; username holds the e-mail address
RegisterRequests ==
    [ip : IPs, username : {"a@b.c", "d@e.f"}, password : {"abc", "Str0ng!Passw0rd"}]

\* validators.validate_password, called by UserCreate.validate_password_field
\* (schemas.py:148): the minimum-strength policy; TRUE: the password is
\* returned, FALSE: ValueError
validate_password(password) == password = "Str0ng!Passw0rd"

\* error_handler.py:12
IS_PRODUCTION == Lower(environment) \in {"production", "prod"}

\* error_handler.py:15-51, the message for the client
get_safe_error_message(error_type, generic_message) ==
    IF IS_PRODUCTION THEN generic_message
    ELSE generic_message \o " (" \o error_type \o ")"

\* the response of register, the services it contacted for it, the events
\* it logged
RegisterResponse(status, detail, contacted, log) ==
    [status |-> status, detail |-> detail, contacted |-> contacted, log |-> log]

\* routes/auth.py:35-70, the body of register for one answer of
\* supabase.auth.sign_up: a user, a response without user, the exception
\* that the e-mail address is already registered, or another exception
register(answer) ==
    CASE answer = "user" ->
            RegisterResponse(200, "", {"supabase"}, <<"successful_registration">>)
      [] answer = "no user" ->
            RegisterResponse(400, "Registration failed", {"supabase"},
                             <<"failed_registration">>)
      [] answer = "already registered" ->
            RegisterResponse(400, "Email already registered", {"supabase"},
                             <<"failed_registration">>)
      [] OTHER ->
            RegisterResponse(400, get_safe_error_message("AuthApiError", "Registration failed"),
                             {"supabase"}, <<"failed_registration">>)

\* a registration request arrives
RegisterReceive ==
    /\ lpos = "idle"
    /\ lreq' \in RegisterRequests
    /\ lpos' = "depends"
    /\ UNCHANGED <<lresp, accounts>>
    /\ UNCHANGED <<rlVars, concVars, csrfVars, authVars, cookieVars, valVars, appVars>>

\* routes/auth.py:32: the dependency rate_limit_dependency("register") is
\* solved before the payload is validated
RegisterRateLimit ==
    /\ lpos = "depends"
    /\ LET dep == check_rate_limit_dep(store, lreq.ip, "register", now)
       IN  /\ store' = dep.store
           /\ last' = [ip |-> lreq.ip, ep |-> "register", time |-> now,
                       allowed |-> dep.allowed, prior |-> admitted[<<lreq.ip, "register">>]]
           /\ admitted' = IF dep.allowed
                          THEN [admitted EXCEPT ![<<lreq.ip, "register">>] = Append(@, now)]
                          ELSE admitted
           /\ IF dep.raised # 0
              THEN /\ lresp' = RegisterResponse(dep.raised, "Too many requests", {}, dep.log)
                   /\ lpos' = "done"
              ELSE /\ lresp' = RegisterResponse(0, "", {}, dep.log)
                   /\ lpos' = "validate"
    /\ UNCHANGED <<now, lreq, accounts>>
    /\ UNCHANGED <<concVars, csrfVars, authVars, cookieVars, valVars, appVars>>

\* routes/auth.py:30, payload: schemas.UserCreate.  The ValueError of a field
\* validator makes the request a RequestValidationError, for which the
\* application has no handler of its own (main.py:22-52): it is answered
\* 422 and the body of register does not run.
RegisterValidate ==
    /\ lpos = "validate"
    /\ IF validate_password(lreq.password)
       THEN /\ lresp' = lresp
            /\ lpos' = "body"
       ELSE /\ lresp' = RegisterResponse(422, "Value error", {}, lresp.log)
            /\ lpos' = "done"
    /\ UNCHANGED <<lreq, accounts>>
    /\ UNCHANGED <<rlVars, concVars, csrfVars, authVars, cookieVars, valVars, appVars>>

\* routes/auth.py:35-70.  supabase.auth.sign_up (routes/auth.py:36-39)
\* creates the account and answers with the user, answers without user, or
\* raises an exception; for an address that has an account it raises the
\* exception that the address is already registered, or another one.
RegisterBody ==
    /\ lpos = "body"
    /\ \E answer \in IF lreq.username \in accounts THEN {"already registered", "exception"}
                     ELSE {"user", "no user", "exception"} :
        /\ lresp' = [register(answer) EXCEPT !.log = lresp.log \o @]
        /\ accounts' = IF answer = "user" THEN accounts \cup {lreq.username} ELSE accounts
    /\ lpos' = "done"
    /\ UNCHANGED <<lreq, rlVars, concVars, csrfVars, authVars, cookieVars, valVars, appVars>>

HttpIdle == CsrfIdle /\ AuthIdle /\ CookieIdle

\* the application as built for one value of ENVIRONMENT, with the store of
\* the rate limiter as the checks of `history` have left it at the time
\* `at`, and before any other request
BuiltFor(env, at, kept, history) ==
    /\ RLInit(at, kept, history)
    /\ ConcIdle
    /\ HttpIdle
    /\ fin = NoCall
    /\ fout = Rejected(None)
    /\ sname = <<>>
    /\ sout = [called |-> FALSE, none |-> TRUE, value |-> <<>>]
    /\ wreq = NoAppRequest
    /\ wpos = "idle"
    /\ wroute = NoRoute
    /\ wuser = NoResult
    /\ wresp = [status |-> 0, headers |-> {}, data |-> NoData]
    \* Base.metadata.create_all (main.py:17) and the resources directory
    \* (main.py:20): empty tables, no files
    /\ pages = {}
    /\ resources = {}
    /\ files = {}
    /\ lreq = NoLoginRequest
    /\ lpos = "idle"
    /\ lresp = LoginResponse(0, {}, <<>>)
    /\ accounts = {}
    /\ environment = env

\* the application before any request
Built(env) == BuiltFor(env, 0, [i \in IPs |-> <<>>], [k \in Keys |-> <<>>])

Init == Built("development")

\* two clients: one that calls both endpoints and one that calls login
TwoClientKeys ==
    {<<"10.0.0.1", "login">>, <<"10.0.0.1", "register">>, <<"10.0.0.2", "login">>}

\* The application one window after its start.  Each key has had no check,
\* or RATE_LIMIT_MAX_REQUESTS checks in a burst at the start or half a
\* window ago, and no check has purged the list of its address since; the
\* checks of an address are in its list in the order of their times.
InitTwoClients ==
    \E history \in [TwoClientKeys ->
                        {<<>>} \cup {[i \in 1..RATE_LIMIT_MAX_REQUESTS |-> t] : t \in {0, 30}}] :
        \E first \in Endpoints :
            LET entries(ip, endpoint) ==
                    IF <<ip, endpoint>> \in TwoClientKeys
                    THEN [i \in DOMAIN history[<<ip, endpoint>>] |->
                            [ts |-> history[<<ip, endpoint>>][i], ep |-> endpoint]]
                    ELSE <<>>
                second == CHOOSE endpoint \in Endpoints : endpoint # first
                kept == [ip \in {k[1] : k \in TwoClientKeys} |->
                            entries(ip, first) \o entries(ip, second)]
            IN  /\ \A ip \in DOMAIN kept :
                    \A i, j \in DOMAIN kept[ip] : i < j => kept[ip][i].ts <= kept[ip][j].ts
                /\ BuiltFor("development", RATE_LIMIT_WINDOW, kept, history)

InitAnyEnvironment == \E env \in Environments : Built(env)

\* time passes between two calls
Tick ==
    /\ \E d \in TickSteps :
        /\ now + d <= MaxTime
        /\ now' = now + d
    /\ UNCHANGED <<store, admitted, last, pc, rq, running, csrfVars, authVars, cookieVars, svcVars>>

\* one call of check_rate_limit(ip, endpoint), rate_limit.py:50-68
CheckRateLimit ==
    /\ \E ip \in DOMAIN store, endpoint \in Endpoints :
        LET ok == check_rate_limit_result(store, ip, endpoint, now)
        IN  /\ <<ip, endpoint>> \in DOMAIN admitted
            /\ store' = check_rate_limit_store(store, ip, endpoint, now)
            /\ last' = [ip |-> ip, ep |-> endpoint, time |-> now, allowed |-> ok,
                        prior |-> admitted[<<ip, endpoint>>]]
            /\ admitted' = IF ok THEN [admitted EXCEPT ![<<ip, endpoint>>] = Append(@, now)]
                                 ELSE admitted
    /\ UNCHANGED <<now, pc, rq, running, csrfVars, authVars, cookieVars, svcVars>>

NextRate == Tick \/ CheckRateLimit

SpecRate == Init /\ [][NextRate]_vars

\* the checks of the clients within one second
NextKeys == CheckRateLimit

SpecKeys == InitTwoClients /\ [][NextKeys]_vars

SpecCsrf == Init /\ [][NextCsrf]_vars

SpecAuth == Init /\ [][NextAuth]_vars

SpecCookie == InitAnyEnvironment /\ [][NextCookie]_vars

SpecFile == Init /\ [][NextFile]_vars

SpecSanitize == Init /\ [][NextSanitize]_vars

SpecHtml == Init /\ [][NextHtml]_vars

SpecApp == InitAnyEnvironment /\ [][NextApp]_vars

SpecStore == Init /\ [][NextStore]_vars

NextLogin == Tick \/ LoginReceive \/ LoginRateLimit \/ LoginBody \/ LoginDone

SpecLogin == Init /\ [][NextLogin]_vars

NextRegister ==
    Tick \/ RegisterReceive \/ RegisterRateLimit \/ RegisterValidate \/ RegisterBody \/ LoginDone

SpecRegister == InitAnyEnvironment /\ [][NextRegister]_vars

\* number of timestamps of a history that are less than one window older than t
InWindow(seq, t) == Len(SelectSeq(seq, LAMBDA x : x > t - 60))

\* C1: a check is allowed exactly when fewer than 5 earlier checks of the same
\* ip and endpoint were allowed in the 60 seconds before it: the first 5 of a
\* window pass, a further one while 5 are inside the window is rejected, and a
\* check 60 seconds or more after the first request of the burst passes again.
C1_SlidingWindow ==
    last # NoCheck =>
        LET n == InWindow(last.prior, last.time)
            k == Len(last.prior)
        IN  /\ n <= 5
            /\ (n < 5 => last.allowed)
            /\ (n = 5 => ~last.allowed)
            /\ (k >= 5 /\ last.prior[k - 4] + 60 <= last.time => last.allowed)

\* a full burst of 5, and a check exactly 60 seconds after its first request
C1_Witness ==
    /\ last # NoCheck
    /\ Len(last.prior) >= 5
    /\ last.prior[Len(last.prior)] - last.prior[Len(last.prior) - 4] < 60
    /\ last.prior[Len(last.prior) - 4] + 60 = last.time
    /\ last.allowed

\* ------------------------------------------------------------------------
\* Concurrent requests through check_rate_limit_dep (rate_limit.py:78-89)
\* ------------------------------------------------------------------------

\* Faulty variant: every statement is a suspension point, as for a dependency that
\* runs on a thread pool instead of on the event loop.
SuspendsAtAnyStatement(loc) == TRUE

\* check_rate_limit_dep is an async def without an await and check_rate_limit
\* is a plain function: once the event loop has started the coroutine, no
\* other coroutine runs until it has returned or raised.
SuspendsAt(loc) == loc \in {"idle", "ready"}

\* the statement at pc[p] may run: the event loop is free or p holds it
MayRun(p) == running \subseteq {p}

\* who holds the event loop after p has moved to loc
Holder(p, loc) == IF SuspendsAt(loc) THEN {} ELSE {p}

\* the concurrent requests all go to one route
ConcEndpoints == {"login"}

\* a request for a rate-limited route arrives; its coroutine is scheduled
Arrive(p) ==
    /\ pc[p] = "idle"
    /\ \E ip \in IPs, endpoint \in ConcEndpoints :
        rq' = [rq EXCEPT ![p] = [NoLocals EXCEPT !.ip = ip, !.ep = endpoint]]
    /\ pc' = [pc EXCEPT ![p] = "ready"]
    /\ UNCHANGED <<now, store, admitted, last, running, csrfVars, authVars, cookieVars, svcVars>>

\* rate_limit.py:79-81: the event loop starts check_rate_limit_dep
Enter(p) ==
    /\ pc[p] = "ready" /\ MayRun(p)
    /\ pc' = [pc EXCEPT ![p] = "clock"]
    /\ running' = Holder(p, "clock")
    /\ UNCHANGED <<now, store, admitted, last, rq, csrfVars, authVars, cookieVars, svcVars>>

\* rate_limit.py:52
ReadClock(p) ==
    /\ pc[p] = "clock" /\ MayRun(p)
    /\ rq' = [rq EXCEPT ![p].current_time = now]
    /\ pc' = [pc EXCEPT ![p] = "purge"]
    /\ running' = Holder(p, "purge")
    /\ UNCHANGED <<now, store, admitted, last, csrfVars, authVars, cookieVars, svcVars>>

\* rate_limit.py:43-47, the list comprehension builds the new list
PurgeBuild(p) ==
    /\ pc[p] = "purge" /\ MayRun(p)
    /\ rq' = [rq EXCEPT ![p].kept =
                cleanup_old_entries(store, rq[p].ip, rq[p].current_time)[rq[p].ip]]
    /\ pc' = [pc EXCEPT ![p] = "assign"]
    /\ running' = Holder(p, "assign")
    /\ UNCHANGED <<now, store, admitted, last, csrfVars, authVars, cookieVars, svcVars>>

\* rate_limit.py:43, the assignment of the new list
PurgeAssign(p) ==
    /\ pc[p] = "assign" /\ MayRun(p)
    /\ store' = [store EXCEPT ![rq[p].ip] = rq[p].kept]
    /\ pc' = [pc EXCEPT ![p] = "count"]
    /\ running' = Holder(p, "count")
    /\ UNCHANGED <<now, rq, admitted, last, csrfVars, authVars, cookieVars, svcVars>>

\* rate_limit.py:58-61
Count(p) ==
    /\ pc[p] = "count" /\ MayRun(p)
    /\ rq' = [rq EXCEPT ![p].count =
                Len(endpoint_requests(store[rq[p].ip], rq[p].ep, rq[p].current_time))]
    /\ pc' = [pc EXCEPT ![p] = "decide"]
    /\ running' = Holder(p, "decide")
    /\ UNCHANGED <<now, store, admitted, last, csrfVars, authVars, cookieVars, svcVars>>

\* rate_limit.py:63-68 and 81-89: reject (log, raise 429) or record and allow
Decide(p) ==
    /\ pc[p] = "decide" /\ MayRun(p)
    /\ LET ok == rq[p].count < RATE_LIMIT_MAX_REQUESTS
           key == <<rq[p].ip, rq[p].ep>>
       IN  /\ store' = IF ok THEN [store EXCEPT ![rq[p].ip] =
                                    Append(@, [ts |-> rq[p].current_time, ep |-> rq[p].ep])]
                             ELSE store
           /\ admitted' = IF ok THEN [admitted EXCEPT ![key] = Append(@, rq[p].current_time)]
                                ELSE admitted
    /\ pc' = [pc EXCEPT ![p] = "idle"]
    /\ rq' = [rq EXCEPT ![p] = NoLocals]
    /\ running' = Holder(p, "idle")
    /\ UNCHANGED <<now, last, csrfVars, authVars, cookieVars, svcVars>>

NextConc ==
    \/ Tick
    \/ \E p \in Requests :
        Arrive(p) \/ Enter(p) \/ ReadClock(p) \/ PurgeBuild(p) \/ PurgeAssign(p) \/ Count(p) \/ Decide(p)

SpecConc == Init /\ [][NextConc]_vars

\* the timestamps of one endpoint in a stored list
StoredFor(lst, endpoint) == SelectSeq(lst, LAMBDA e : e.ep = endpoint)

\* C2: whatever the interleaving of the concurrent requests, every timestamp
\* of an allowed request that is less than 60 seconds old is still in the
\* store, and no ip and endpoint has more than 5 allowed requests within 60
\* seconds of one another.
C2_Serialized ==
    \A k \in Keys :
        /\ InWindow(admitted[k], now) =
             Len(SelectSeq(StoredFor(store[k[1]], k[2]), LAMBDA e : e.ts > now - 60))
        /\ \A i \in 1..Len(admitted[k]) :
             Cardinality({j \in 1..Len(admitted[k]) :
                 /\ admitted[k][j] > admitted[k][i] - 60
                 /\ admitted[k][j] <= admitted[k][i]}) <= 5

\* two requests of one ip and endpoint are in flight while the window is full
C2_Witness ==
    /\ \E k \in Keys : InWindow(admitted[k], now) = 5
    /\ \E p, q \in Requests :
        /\ p # q
        /\ pc[p] = "decide" /\ pc[q] = "ready"
        /\ rq[p].ip = rq[q].ip /\ rq[p].ep = rq[q].ep

\* ------------------------------------------------------------------------
\* Properties of the CSRF guard
\* ------------------------------------------------------------------------
CsrfDecided == cout \in {"call_next", "forbidden"}

\* a protected method on a path that is not a public endpoint
CsrfGuarded(r) == r.method \in {"POST", "PUT", "PATCH", "DELETE"}
                  /\ r.path \notin {"/api/auth/register", "/api/auth/login"}

\* the Authorization header is a Bearer header whose token verifies
HasValidBearer(r) == IsBearer(r.authorization) /\ jwt_decode(r.authorization.value) = "ok"

\* C3: a POST, PUT, PATCH or DELETE request to a path other than register
\* and login reaches the route handler only if it carries the X-CSRF-Token
\* header and a Bearer token that verifies; otherwise the guard answers 403.
C3_GuardedUnlessBoth ==
    CsrfDecided /\ CsrfGuarded(creq) =>
        IF creq.csrf.present /\ HasValidBearer(creq)
        THEN TRUE
        ELSE cout = "forbidden"

\* C4 as stated: safe methods and the public endpoints always pass, and a
\* guarded request that carries the X-CSRF-Token header and a valid bearer
\* token passes.
C4_NeverBlocksLegitimate ==
    CsrfDecided =>
        /\ (creq.method \in {"GET", "HEAD", "OPTIONS"} => cout = "call_next")
        /\ (creq.path \in {"/api/auth/register", "/api/auth/login"} => cout = "call_next")
        /\ (CsrfGuarded(creq) /\ creq.csrf.present /\ HasValidBearer(creq)
                => cout = "call_next")

\* C4 amended: safe methods and the public endpoints always pass, and a
\* guarded request that carries a non-empty X-CSRF-Token header and a valid
\* bearer token passes.
C4_NeverBlocksWithToken ==
    CsrfDecided =>
        /\ (creq.method \in {"GET", "HEAD", "OPTIONS"} => cout = "call_next")
        /\ (creq.path \in {"/api/auth/register", "/api/auth/login"} => cout = "call_next")
        /\ (CsrfGuarded(creq) /\ creq.csrf.present /\ creq.csrf.value # ""
              /\ HasValidBearer(creq)
                => cout = "call_next")

\* a guarded request with the header and a valid bearer token has passed
C4_Witness ==
    /\ cout = "call_next"
    /\ CsrfGuarded(creq)
    /\ creq.csrf.present /\ creq.csrf.value # ""
    /\ HasValidBearer(creq)

\* ------------------------------------------------------------------------
\* Properties of the token verifier
\* ------------------------------------------------------------------------
AuthDone == ares # NoResult

\* the token the verifier examined has a good signature, has not expired,
\* and is for the audience "authenticated"
Verifies(t) == t.sig = "valid" /\ t.exp = "future" /\ t.aud = "authenticated"

\* C5: get_current_user returns an identity only for a token whose HS256
\* signature verifies, whose expiry is in the future, whose audience is
\* "authenticated" and which has a sub claim; otherwise it answers 401 and
\* returns no identity.
C5_IdentityOnlyIfVerified ==
    AuthDone =>
        IF ares.token.source # "none" /\ Verifies(ares.token.value)
           /\ ares.token.value.sub # "absent"
        THEN TRUE
        ELSE ares.status = 401 /\ ares.identity = NoIdentity

\* the identity a token stands for: its sub, and its email or ""
IdentityOf(t) ==
    [returned |-> TRUE, id |-> t.sub, email |-> IF t.email = "absent" THEN "" ELSE t.email]

\* C6 as stated: a valid, unexpired, correctly signed token with audience
\* "authenticated" and a sub claim, in the Authorization header or (without
\* a bearer header) in the cookie, yields the identity of that token.
C6_ValidTokenYieldsIdentity ==
    AuthDone =>
        \A t \in Tokens :
            /\ Verifies(t) /\ t.sub # "absent"
            /\ \/ IsBearer(areq.authorization) /\ areq.authorization.value = t
               \/ ~IsBearer(areq.authorization) /\ areq.cookie = [present |-> TRUE, empty |-> FALSE, value |-> t]
            => ares.status = 200 /\ ares.identity = IdentityOf(t)

\* C6 amended: the same for a token whose sub claim is not the empty string.
C6_NonEmptySubYieldsIdentity ==
    AuthDone =>
        \A t \in Tokens :
            /\ Verifies(t) /\ t.sub # "absent" /\ t.sub # ""
            /\ \/ IsBearer(areq.authorization) /\ areq.authorization.value = t
               \/ ~IsBearer(areq.authorization) /\ areq.cookie = [present |-> TRUE, empty |-> FALSE, value |-> t]
            => ares.status = 200 /\ ares.identity = IdentityOf(t)

\* a token without an email claim, taken from the cookie, has yielded its identity
C6_Witness ==
    /\ AuthDone
    /\ ~areq.authorization.present
    /\ areq.cookie.present /\ ~areq.cookie.empty
    /\ Verifies(areq.cookie.value) /\ areq.cookie.value.email = "absent"
    /\ ares.status = 200
    /\ ares.identity = [returned |-> TRUE, id |-> "user-1", email |-> ""]

\* C7 as stated: with an Authorization header the token is the header's
\* bearer value, the cookie is consulted only when the Authorization header
\* is absent, a bearer header wins over a cookie, and without a token the
\* answer is 401 "Not authenticated".
C7_CookieOnlyWithoutHeader ==
    AuthDone =>
        /\ (IsBearer(areq.authorization) =>
                ares.token = [source |-> "header", value |-> areq.authorization.value])
        /\ (ares.token.source = "cookie" => ~areq.authorization.present)
        /\ (ares.token.source = "none" =>
                ares.status = 401 /\ ares.detail = "Not authenticated")

\* C7 amended: the cookie is consulted only when the request has no
\* Authorization header of the Bearer scheme (no header, or another scheme).
C7_CookieOnlyWithoutBearer ==
    AuthDone =>
        /\ (IsBearer(areq.authorization) =>
                ares.token = [source |-> "header", value |-> areq.authorization.value])
        /\ (ares.token.source = "cookie" =>
                /\ ~(areq.authorization.present /\ areq.authorization.scheme \in {"Bearer", "bearer"})
                /\ ares.token.value = areq.cookie.value)
        /\ (ares.token.source = "none" =>
                ares.status = 401 /\ ares.detail = "Not authenticated")

\* a bearer header and a different cookie token: the header's token was used
C7_Witness ==
    /\ AuthDone
    /\ IsBearer(areq.authorization)
    /\ areq.cookie.present /\ ~areq.cookie.empty
    /\ areq.cookie.value # areq.authorization.value
    /\ ares.token = [source |-> "header", value |-> areq.authorization.value]

\* the reasons of the records a request has logged
LoggedReasons == {ares.log[i].details.reason : i \in 1..Len(ares.log)}

\* C8: an expired token yields 401 "Token expired", a token with an invalid
\* signature, format or audience yields 401 "Invalid token", a verified
\* token without a sub claim yields 401 "Invalid token"; each is logged with
\* a reason of its own subtype, and the client message and the log records
\* are made of fixed texts and exception type names only, never of the token.
C8_FailureSubtypes ==
    AuthDone /\ ares.token.source # "none" =>
        LET t == ares.token.value
            expired == t.sig = "valid" /\ t.exp = "past"
            invalid == t.sig # "valid" \/ (t.exp # "past" /\ t.aud # "authenticated")
            nosub == t.sig = "valid" /\ t.exp # "past" /\ t.aud = "authenticated"
                     /\ t.sub = "absent"
        IN  /\ expired =>
                /\ ares.status = 401 /\ ares.detail = "Token expired"
                /\ LoggedReasons = {<<"Token expired">>}
            /\ invalid =>
                /\ ares.status = 401 /\ ares.detail = "Invalid token"
                /\ \E e \in {"DecodeError", "InvalidAlgorithmError", "InvalidSignatureError",
                             "MissingRequiredClaimError", "InvalidAudienceError"} :
                       LoggedReasons = {<<"Invalid token: ", e>>}
            /\ nosub =>
                /\ ares.status = 401 /\ ares.detail = "Invalid token"
                /\ <<"Token missing user ID">> \in LoggedReasons
                /\ <<"Token expired">> \notin LoggedReasons
                /\ \A q \in LoggedReasons : q[1] # "Invalid token: "
            /\ ares.detail \in {None, "Token expired", "Invalid token"}
            /\ \A i \in 1..Len(ares.log) :
                /\ ares.log[i].event_type = "authentication_failure"
                /\ DOMAIN ares.log[i].details = {"reason"}
                /\ ares.log[i].client = [method |-> areq.method, path |-> areq.path]
                /\ ares.log[i].user_identifier = None

\* an expired token whose audience is wrong as well has been refused
C8_Witness ==
    /\ AuthDone
    /\ ares.token.source = "header"
    /\ ares.token.value.sig = "valid" /\ ares.token.value.exp = "past"
    /\ ares.token.value.aud = "other"
    /\ ares.detail = "Token expired"

\* ------------------------------------------------------------------------
\* Properties of the cookie hardener
\* ------------------------------------------------------------------------

\* the cookie has the attribute, whatever the case of its name
HasAttr(cookie, name) == \E i \in DOMAIN cookie.attrs : Lower(cookie.attrs[i].key) = name

\* the cookie has the attribute with this value
HasAttrValue(cookie, name, value) ==
    \E i \in DOMAIN cookie.attrs :
        /\ Lower(cookie.attrs[i].key) = name
        /\ cookie.attrs[i].has_value /\ cookie.attrs[i].value = value

\* C9: after the hardener every Set-Cookie header carries HttpOnly and a
\* SameSite attribute, and Secure in production mode, whatever attributes
\* the upstream response had set on the cookie.
C9_SecureAttributesPresent ==
    hstage = "hardened" =>
        \A i \in DOMAIN set_cookie :
            /\ HasAttr(set_cookie[i], "httponly")
            /\ HasAttr(set_cookie[i], "samesite")
            /\ (environment = "production" => HasAttr(set_cookie[i], "secure"))

\* C10: the hardener emits one Set-Cookie header per original cookie, in
\* order, with the same name=value; every attribute other than HttpOnly,
\* Secure and SameSite is kept with its value; a SameSite value of the
\* upstream is kept, and SameSite=Lax is added only when there was none.
C10_OnlyAddsMissing ==
    hstage = "hardened" =>
        /\ Len(set_cookie) = Len(upstream)
        /\ \A i \in DOMAIN upstream :
            /\ i \in DOMAIN set_cookie
            /\ set_cookie[i].name_value = upstream[i].name_value
            /\ \A j \in DOMAIN upstream[i].attrs :
                LET part == upstream[i].attrs[j]
                IN  /\ Lower(part.key) \notin {"httponly", "secure", "samesite"} =>
                            \E k \in DOMAIN set_cookie[i].attrs :
                                /\ Lower(set_cookie[i].attrs[k].key) = Lower(part.key)
                                /\ set_cookie[i].attrs[k].has_value = part.has_value
                                /\ set_cookie[i].attrs[k].value = part.value
                    /\ Lower(part.key) = "samesite" =>
                            HasAttrValue(set_cookie[i], "samesite", part.value)
            /\ (~HasAttr(upstream[i], "samesite") =>
                    HasAttrValue(set_cookie[i], "samesite", "Lax"))

\* ------------------------------------------------------------------------
\* Properties of the file content validator
\* ------------------------------------------------------------------------
MagicBytesDone == fin.fn = "validate_file_magic_bytes"
FileSizeDone == fin.fn = "validate_file_size"
ValidateFileDone == fin.fn = "validate_file"

\* the entries of the signature table that are considered for the expected
\* category and whose pattern stands in the buffer at the entry's offset
Matching(f, expected_type) ==
    {k \in 1..Len(FILE_SIGNATURES) :
        /\ Given(expected_type) => FILE_SIGNATURES[k].file_type = expected_type
        /\ SliceEquals(f, FILE_SIGNATURES[k].offset, FILE_SIGNATURES[k].signature)}

\* C14: validate_file_magic_bytes is a function of the bytes and the
\* expected category: a buffer of at least 12 bytes gets the (mime,
\* extension, category) of the first signature-table entry whose pattern
\* matches at its offset, a RIFF buffer is resolved to avi, webm or webp by
\* the marker in bytes 8-12, a ZIP buffer is docx only if a marker string
\* occurs in its first 1024 bytes, and a buffer shorter than 12 bytes or
\* matching no entry always fails.
C14_FirstSignatureDecides ==
    MagicBytesDone =>
        LET f == fin.file
            m == Matching(f, fin.type)
        IN  IF f.size < 12 \/ m = {} THEN ~fout.ok
            ELSE LET e == FILE_SIGNATURES[CHOOSE k \in m : \A j \in m : k <= j]
                 IN  IF e.signature = MAGIC.RIFF
                     THEN /\ SliceEquals(f, 8, MAGIC.AVI) => fout = Accepted("video/avi", ".avi", "video")
                          /\ SliceEquals(f, 8, MAGIC.WEBM) =>
                                fout = Accepted("video/webm", ".webm", "video")
                          /\ SliceEquals(f, 8, MAGIC.WEBP) =>
                                fout = Accepted("image/webp", ".webp", "photo")
                     ELSE IF e.signature = MAGIC.PK
                     THEN fout.ok =>
                            /\ fout.extension = ".docx"
                            /\ \E i \in 0..1023 :
                                \/ i + Len(MAGIC.WORD) <= 1024 /\ SliceEquals(f, i, MAGIC.WORD)
                                \/ /\ i + Len(MAGIC.CONTENT_TYPES) <= 1024
                                   /\ SliceEquals(f, i, MAGIC.CONTENT_TYPES)
                     ELSE fout = Accepted(e.mime_type, e.extension, e.file_type)

\* C15: when an expected category is given, every successful classification
\* by validate_file_magic_bytes or validate_file returns a category equal
\* to the expected category.
C15_CategoryAsExpected ==
    (MagicBytesDone \/ ValidateFileDone) /\ Given(fin.type) /\ fout.ok =>
        fout.file_type = fin.type

\* the ceiling of a category, in bytes: photo 50 MB, video 500 MB,
\* document 50 MB, any other category 100 MB
Ceiling(file_type) ==
    CASE file_type = "photo" -> 52428800
      [] file_type = "video" -> 524288000
      [] file_type = "document" -> 52428800
      [] OTHER -> 104857600

\* C16: size validation is exact at the boundary: a non-empty file whose
\* length equals its category's ceiling passes, a file one byte longer
\* fails, and an empty file fails.
C16_SizeBoundary ==
    FileSizeDone =>
        /\ fin.file.size = Ceiling(fin.type) => fout.ok
        /\ fin.file.size = Ceiling(fin.type) + 1 => ~fout.ok
        /\ fin.file.size = 0 => ~fout.ok

\* a video of exactly 500 MB has passed the size validation
C16_Witness ==
    /\ FileSizeDone
    /\ fin.type = "video"
    /\ fin.file.size = 524288000
    /\ fout.ok

\* C17: validate_file rejects a file on account of its declared filename
\* if and only if the filename carries an extension that is outside the
\* detected category's allow-list or that differs from the detected
\* extension beyond the jpg/jpeg and tif/tiff equivalences; a declared
\* filename that carries no extension is never a ground for rejection.
C17_RejectsOnlyBadExtension ==
    ValidateFileDone =>
        LET without == validate_file(fin.file, fin.content_type, None, fin.type)
            ext == IF Given(fin.filename) THEN suffix_lower(fin.filename) ELSE ""
            same == \/ ext = without.extension
                    \/ {ext, without.extension} \subseteq {".jpg", ".jpeg"}
                    \/ {ext, without.extension} \subseteq {".tif", ".tiff"}
        IN  without.ok =>
                (~fout.ok <=> ext # "" /\ (ext \notin ALLOWED_EXTENSIONS(without.file_type)
                                           \/ ~same))

\* C18: client-declared metadata never influences the classification: two
\* calls of validate_file with the same bytes and the same expected
\* category but different declared MIME type and filename return, whenever
\* both succeed, the same (mime, extension, category), and that triple is
\* what the magic bytes alone determine.
C18_DeclaredNeverDecides ==
    ValidateFileDone /\ fout.ok =>
        /\ LET d == validate_file_magic_bytes(fin.file, fin.type)
           IN  d.ok /\ fout = Accepted(d.mime_type, d.extension, d.file_type)
        /\ \A ct \in ContentTypes, name \in Filenames :
            LET other == validate_file(fin.file, ct, name, fin.type)
            IN  other.ok => other = fout

\* a file was accepted whose declared content type and extension are not
\* the detected ones, and the same bytes are accepted without any declaration
C18_Witness ==
    /\ ValidateFileDone
    /\ fout.ok
    /\ fin.content_type = "image/jpg"
    /\ fin.filename = "a.jpeg"
    /\ fout.mime_type = "image/jpeg"
    /\ fout.extension = ".jpg"
    /\ validate_file(fin.file, None, None, fin.type).ok

\* ------------------------------------------------------------------------
\* Properties of the filename sanitizer
\* ------------------------------------------------------------------------

\* C19: for every input string, the result of sanitize_filename contains no
\* "/" and no "\" characters, is not a ".." path segment, contains only
\* characters of [A-Za-z0-9._-], and is at most 255 characters long.
C19_SafeFilename ==
    sout.called /\ ~sout.none =>
        /\ \A i \in 1..Len(sout.value) :
            sout.value[i] \notin {"/", "\\"} /\ sout.value[i] \in AllowedChars
        /\ sout.value # <<".", ".">>
        /\ Len(sout.value) <= 255

\* ------------------------------------------------------------------------
\* Properties of the application
\* ------------------------------------------------------------------------
ResponseSent == wpos = "sent"

HeaderNames(response) == {h[1] : h \in response.headers}

\* C11: every response that leaves the application carries the fixed
\* security headers (X-Content-Type-Options, X-Frame-Options,
\* X-XSS-Protection, Content-Security-Policy, Referrer-Policy,
\* Permissions-Policy, and Strict-Transport-Security exactly when in
\* production mode), whatever the route and status code, including the
\* responses produced by another middleware such as the CSRF guard's 403.
C11_SecurityHeadersOnEveryResponse ==
    ResponseSent =>
        /\ {"X-Content-Type-Options", "X-Frame-Options", "X-XSS-Protection",
            "Content-Security-Policy", "Referrer-Policy", "Permissions-Policy"}
                \subseteq HeaderNames(wresp)
        /\ "Strict-Transport-Security" \in HeaderNames(wresp) <=> environment = "production"

\* the routes that create, update, delete, upload or reorder
MutatingRoutes ==
    {"create_page", "update_page", "delete_page", "create_resource", "upload_file",
     "update_resource", "reorder_resources", "delete_resource"}

\* C12: no page or resource is created, updated, deleted, uploaded or
\* reordered by a request for which the verifier did not return an
\* identity: the body of a mutating route runs only after get_current_user
\* succeeded, and an unauthenticated request leaves the stored pages and
\* resources (and their files) unchanged.
C12_MutationNeedsIdentity ==
    [][/\ wpos' = "body" /\ wroute'.name \in MutatingRoutes =>
            wuser'.status = 200 /\ wuser'.identity.returned
       /\ <<pages, resources, files>>' # <<pages, resources, files>> =>
            wuser.identity.returned /\ wuser.identity = get_current_user(wreq).identity]_vars

\* an authenticated upload has stored a resource and its file
C12_Witness ==
    /\ ResponseSent
    /\ wroute.name = "upload_file"
    /\ wresp.status = 200
    /\ wuser.identity.returned
    /\ \E r \in resources : normpath(path_join(RESOURCES_DIR, r.file_path)) \in files

\* C13: read endpoints are authenticated-only: no page or resource data
\* (including the resources embedded in a page listing) is returned to a
\* request for which the verifier did not return an identity.
C13_ReadsNeedIdentity ==
    ResponseSent /\ wresp.data # NoData =>
        wuser.identity.returned \/ get_current_user(wreq).identity.returned

\* ------------------------------------------------------------------------
\* Properties of the login route
\* ------------------------------------------------------------------------

\* the attempts of the client of the current request that were admitted to
\* the body of login less than 60 seconds before its rate-limit check
AdmittedBefore == InWindow(last.prior, last.time)

\* C20: on the login endpoint the rate-limit check runs before any
\* credential verification and every admitted attempt is counted whether it
\* succeeds or fails: after 5 login attempts from one client IP within 60
\* seconds, the 6th attempt is answered 429 without contacting the identity
\* provider, even when it presents the correct password.
C20_LoginThrottled ==
    [][/\ lresp'.contacted \ lresp.contacted # {} =>
            lpos = "body" /\ last.allowed /\ last.ip = lreq.ip /\ last.ep = "login"
       /\ lpos' = "done" /\ lpos # "done" =>
            LET t == last'.time
                stored == SelectSeq(store'[lreq.ip], LAMBDA e : e.ep = "login" /\ e.ts = t)
                counted == SelectSeq(admitted'[<<lreq.ip, "login">>], LAMBDA x : x = t)
            IN  /\ lresp'.status \in {200, 401} =>
                        Len(stored) >= 1 /\ Len(stored) = Len(counted)
                /\ AdmittedBefore' >= 5 =>
                        lresp'.status = 429 /\ lresp'.contacted = {}]_vars

\* a sixth attempt with the correct password, after five admitted attempts
\* within one window, has been answered 429 without any contact
C20_Witness ==
    /\ lpos = "done"
    /\ lreq.password = "correct"
    /\ AdmittedBefore = 5
    /\ now > 0
    /\ lresp.status = 429
    /\ lresp.contacted = {}

\* ------------------------------------------------------------------------
\* Properties of the register route
\* ------------------------------------------------------------------------

\* C21: a registration whose password fails the minimum-strength policy is
\* rejected with a 400 validation error before sign-up is called, so that
\* no account is created; a registration with a strong password and an
\* unused e-mail address, for which the identity provider creates the
\* account, succeeds.  (A request that the rate limiter refused is answered
\* 429 and is not considered.)
C21_WeakPasswordRejected ==
    [][/\ lpos' = "done" /\ lpos # "done" /\ ~validate_password(lreq.password)
          /\ lresp'.status # 429 =>
            lresp'.status = 400 /\ lresp'.contacted = {} /\ accounts' = accounts
       /\ lpos = "body" /\ lreq.username \notin accounts /\ lreq.username \in accounts' =>
            lresp'.status = 200]_vars

\* ------------------------------------------------------------------------
\* Properties of the security log
\* ------------------------------------------------------------------------

\* C22: every security event produces exactly one emitted log record: each
\* record handed to the logger by log_security_event is emitted, and each
\* request that the verifier rejects produces one authentication_failure
\* record, never zero and never two.
C22_OneRecordPerEvent ==
    AuthDone =>
        /\ Len(emitted(ares.log)) = Len(ares.log)
        /\ ares.status = 401 =>
            Len(SelectSeq(emitted(ares.log),
                          LAMBDA record : record.event_type = "authentication_failure")) = 1

\* ------------------------------------------------------------------------
\* Properties of the files
\* ------------------------------------------------------------------------

\* the file that a path below RESOURCES_DIR names
FileOf(path) == normpath(path_join(RESOURCES_DIR, path))

\* the file is in the resources directory
Inside(file) == startswith(file, RESOURCES_DIR \o <<"/">>)

\* C23: serve_file returns file contents only when the caller is
\* authenticated, the normalised requested path lies inside the resources
\* directory, and some registered resource has file_path equal to the
\* requested path; a path outside the resources directory or a file not
\* backed by a registered resource is answered 403 and no file content is
\* returned.
C23_ServeFileGuarded ==
    ResponseSent /\ wroute.name = "serve_file" =>
        LET requested == unquote(wreq.file_path)
            registered == \E r \in resources : r.file_path = requested
        IN  /\ wresp.data.file # <<>> =>
                /\ wuser.identity.returned
                /\ Inside(FileOf(requested))
                /\ registered
            /\ /\ wuser.identity.returned
               /\ ~Inside(FileOf(requested)) \/ (FileOf(requested) \in files /\ ~registered)
               => wresp.status = 403 /\ wresp.data.file = <<>>

\* C30: after any sequence of page creations or renames followed by
\* uploads, every uploaded file is written inside the resources directory
\* and its recorded file_path has no ".." segment: no page name accepted by
\* validate_page_name makes upload_file write or register a path outside
\* the resources directory.
C30_UploadsStayInside ==
    /\ \A file \in files : Inside(file)
    /\ \A r \in resources :
        LET segments == split(r.file_path)
        IN  /\ \A k \in DOMAIN segments : segments[k] # <<"..">>
            /\ r.file_path # <<>> => Inside(FileOf(r.file_path))

\* C29: after any sequence of resource creations, uploads and deletions on
\* a page, the resources of that page have pairwise distinct order values;
\* in particular a resource created after a deletion never receives an
\* order value that another resource of the page already holds.
C29_DistinctOrder ==
    \A r1 \in resources, r2 \in resources :
        r1.page_id = r2.page_id /\ r1.id # r2.id => r1.order # r2.order

\* ------------------------------------------------------------------------
\* Properties of the rich text
\* ------------------------------------------------------------------------

\* C24: after sanitize_rich_html every tag that remains in the description
\* has a name in the allow-list; a tag whose name is not in the list, such
\* as iframe, img, body or embed, is removed whatever its name starts with,
\* and a remaining tag keeps no attribute other than href, target and rel.
C24_OnlyAllowedTagsRemain ==
    sout.called =>
        \A k \in DOMAIN sout.value :
            sout.value[k].tag =>
                /\ sout.value[k].name \in ALLOWED_HTML_TAGS
                /\ \A n \in DOMAIN sout.value[k].attrs :
                    sout.value[k].attrs[n].key \in ALLOWED_HTML_ATTRIBUTES

\* ------------------------------------------------------------------------
\* Properties of the keys of the rate limiter
\* ------------------------------------------------------------------------

\* the timestamps of the key that the store holds and that are less than
\* one window older than t
Unexpired(st, key, t) ==
    SelectSeq(st[key[1]], LAMBDA e : e.ep = key[2] /\ e.ts > t - RATE_LIMIT_WINDOW)

\* C25: rate-limit keys are isolated: the decision for (client_ip,
\* endpoint_name) depends only on the timestamps recorded for that same
\* pair: a check is allowed exactly when fewer than 5 checks of its own key
\* were allowed in the window, whatever the other keys hold, and a check of
\* another address, or of the same address for another endpoint, removes
\* none of the unexpired timestamps of the key.
C25_KeysIsolated ==
    [][last' # last =>
        \A key \in DOMAIN admitted :
            IF key = <<last'.ip, last'.ep>>
            THEN last'.allowed <=> InWindow(admitted[key], now) < RATE_LIMIT_MAX_REQUESTS
            ELSE /\ Unexpired(store', key, now) = Unexpired(store, key, now)
                 /\ admitted'[key] = admitted[key]]_vars

\* a check of 10.0.0.1 for login was allowed and has purged the expired
\* timestamps of the address while the other endpoint of the address and
\* the other address hold 5 unexpired timestamps each
C25_Witness ==
    /\ last # NoCheck
    /\ last.ip = "10.0.0.1" /\ last.ep = "login" /\ last.allowed
    /\ Len(last.prior) = RATE_LIMIT_MAX_REQUESTS
    /\ Len(Unexpired(store, <<"10.0.0.1", "register">>, now)) = RATE_LIMIT_MAX_REQUESTS
    /\ Len(Unexpired(store, <<"10.0.0.2", "login">>, now)) = RATE_LIMIT_MAX_REQUESTS
    /\ Len(store["10.0.0.1"]) = RATE_LIMIT_MAX_REQUESTS + 1

\* C26: a rejected rate-limit check records nothing: when check_rate_limit
\* returns False the store is unchanged except for the purge of the entries
\* of that address older than 60 seconds, so a client that keeps sending
\* rejected requests is re-admitted 60 seconds after its oldest admitted
\* request: the rejected attempts never prolong the lockout.
C26_RejectedRecordsNothing ==
    [][now' = now =>
        /\ admitted' = admitted =>
                store' = cleanup_old_entries(store, last'.ip, now)
        /\ LET k == Len(last'.prior)
           IN  last' # last /\ k >= RATE_LIMIT_MAX_REQUESTS
                    /\ last'.prior[k - 4] + RATE_LIMIT_WINDOW <= last'.time
                => last'.allowed]_vars

\* a check of login is rejected while the window holds the 5 checks of a
\* burst, and it has purged the expired timestamps of the address
C26_Witness ==
    /\ last # NoCheck
    /\ ~last.allowed
    /\ last.time = 60
    /\ \E endpoint \in Endpoints :
        /\ admitted[<<last.ip, endpoint>>] # <<>>
        /\ admitted[<<last.ip, endpoint>>][1] = 0
    /\ \A i \in DOMAIN store[last.ip] : store[last.ip][i].ts > 0
    /\ Len(store[last.ip]) >= RATE_LIMIT_MAX_REQUESTS

\* ------------------------------------------------------------------------
\* Properties of the cookie rewrite applied twice
\* ------------------------------------------------------------------------

\* the attributes of a cookie, whatever the case of their names
AttributeSet(cookie) ==
    {[key |-> Lower(cookie.attrs[i].key), has_value |-> cookie.attrs[i].has_value,
      value |-> cookie.attrs[i].value] : i \in DOMAIN cookie.attrs}

\* C27: cookie hardening is idempotent: applying the rewrite to a
\* Set-Cookie value that it has already rewritten yields the same attribute
\* set (HttpOnly, SameSite and in production Secure are still present), so
\* stacking the transform twice equals applying it once.
C27_HardeningIdempotent ==
    hstage = "hardened" =>
        LET twice == harden(set_cookie, is_production)
        IN  /\ Len(twice) = Len(set_cookie)
            /\ \A i \in DOMAIN set_cookie :
                /\ AttributeSet(twice[i]) = AttributeSet(set_cookie[i])
                /\ HasAttr(twice[i], "httponly")
                /\ HasAttr(twice[i], "samesite")
                /\ is_production => HasAttr(twice[i], "secure")

\* ------------------------------------------------------------------------
\* Properties of the components configured by ENVIRONMENT
\* ------------------------------------------------------------------------

\* C28: all components agree on hardened mode for every value of the
\* ENVIRONMENT setting: the error handler returns only the generic message
\* exactly when the cookie rewrite adds Secure to a cookie without it, and
\* exactly when the security headers include Strict-Transport-Security.
C28_HardenedModeAgreed ==
    LET generic == get_safe_error_message("AuthApiError", "Registration failed")
                       = "Registration failed"
        secure == HasAttr(secure_cookie([name_value |-> "id=1", attrs |-> <<>>],
                                        is_production), "secure")
        hsts == \E header \in build_security_headers(is_production) :
                    header[1] = "Strict-Transport-Security"
    IN  /\ generic <=> secure
        /\ generic <=> hsts

====
